---- MODULE Spec2Model ----
(***************************************************************************)
(* Proximity state machine (src/StateMachine.cpp) driving a traffic light  *)
(* (src/MockTrafficLight.cpp) from the samples of a distance sensor seen   *)
(* through IDistanceSensor (src/IDistanceSensor.h).                        *)
(*                                                                         *)
(* The program's uint32_t / int32_t values are modelled WordBits wide      *)
(* (two's complement, wrapping modulo 2^WordBits), so UINT32_MAX is        *)
(* 2^WordBits - 1 and every arithmetic step of the source that can wrap    *)
(* wraps in the model too.  Millimetres and milliseconds are scaled to     *)
(* that width.                                                             *)
(***************************************************************************)
EXTENDS Integers, Sequences, FiniteSets, TLC

(***************************************************************************)
(* Bounds of the model.                                                    *)
(***************************************************************************)
\* width in bits of the model's uint32_t / int32_t
WordBits == 4
\* largest distance a sensor reports with RESULT_OK (the sensors of the
\* repository report at most a few metres, far below 2^31 mm)
MaxSampleMm == 4
\* longest time between two clock reads of consecutive steps
MaxDtMs == 1
\* longest time one turn of a polling loop takes, in microseconds
MaxPollStepUs == 2

Modulus == 2^WordBits
UINT32_MAX == Modulus - 1
INT32_MAX == (Modulus \div 2) - 1
INT32_MIN == -(Modulus \div 2)
Int32 == INT32_MIN..INT32_MAX

\* uint32_t arithmetic: the value modulo 2^WordBits
ToUint32(x) == x % Modulus
\* (int32_t)u for an unsigned u: the two's complement reading of the bits
ToInt32(u) == IF u > INT32_MAX THEN u - Modulus ELSE u

VARIABLES
  sm,        \* the StateMachine object (its fields)
  tl,        \* the traffic light object behind StateMachine::_trafficLight
  clockMs,   \* the value millis() returned last
  pc,        \* "running", or "aborted" after a failed assertion (abort())
  last,      \* what the last step did (history, read by the properties only)
  ds,        \* a DistanceSensor object (its fields)
  hw,        \* the board's pins: mode and output level of each
  usClock,   \* the value micros() returned last
  dlast,     \* what the last operation on the driver did (history)
  led,       \* a DiscreteLEDTrafficLight object (its fields)
  llast,     \* what the last call on a traffic light did (history)
  conv       \* a temperature and a pulse width, and their conversions

\* the state machine with its light, and the ranging driver with the board
smVars == <<sm, tl, clockMs, pc, last>>
dsVars == <<ds, hw, usClock, dlast>>
ledVars == <<led, llast>>
vars == <<sm, tl, clockMs, pc, last, ds, hw, usClock, dlast, led, llast, conv>>

State == {"Invalid", "Initializing", "Idle", "Error",
          "SubjectApproaching", "SubjectRetreating"}
MovingDirection == {"Stopped", "Forward", "Backward"}
LightSelector == {"RedLight", "YellowLight", "GreenLight"}
LightState == {"On", "Off"}
\* the results IDistanceSensor::MeasureDistance documents, and one it does not
SensorResult == {"RESULT_OK", "RESULT_TIMEOUT", "RESULT_DEV_ERR",
                 "RESULT_NOT_READY", "RESULT_ERROR"}

(***************************************************************************)
(* MockTrafficLight.  Each operation maps the object t to the object after *)
(* the call and the Result returned.                                       *)
(***************************************************************************)
MockTrafficLight_Constructed ==
  [_initDone |-> FALSE, _redLightState |-> "Off",
   _yellowLightState |-> "Off", _greenLightState |-> "Off"]

IsInitialized(t) == t._initDone

MockTrafficLight_SetState(t, whichLight, state) ==
  IF ~IsInitialized(t) THEN [tl |-> t, result |-> "RESULT_NOT_READY"]
  ELSE IF (state # "On") \/ (state # "On")
    THEN [tl |-> t, result |-> "RESULT_BAD_PARAM"]
  ELSE IF whichLight = "RedLight"
    THEN [tl |-> [t EXCEPT !._redLightState = state,
                           !._yellowLightState = "Off",
                           !._greenLightState = "Off"],
          result |-> "RESULT_OK"]
  ELSE IF whichLight = "YellowLight"
    THEN [tl |-> [t EXCEPT !._redLightState = "Off",
                           !._yellowLightState = state,
                           !._greenLightState = "Off"],
          result |-> "RESULT_OK"]
  ELSE IF whichLight = "GreenLight"
    THEN [tl |-> [t EXCEPT !._redLightState = "Off",
                           !._yellowLightState = "Off",
                           !._greenLightState = state],
          result |-> "RESULT_OK"]
  ELSE [tl |-> t, result |-> "RESULT_BAD_PARAM"]

MockTrafficLight_TurnOn(t, whichLight) ==
  MockTrafficLight_SetState(t, whichLight, "On")

MockTrafficLight_TurnOff(t, whichLight) ==
  MockTrafficLight_SetState(t, whichLight, "Off")

MockTrafficLight_SetAllLightsOff(t) ==
  IF ~IsInitialized(t) THEN [tl |-> t, result |-> "RESULT_NOT_READY"]
  ELSE [tl |-> [t EXCEPT !._redLightState = "Off",
                         !._yellowLightState = "Off",
                         !._greenLightState = "Off"],
        result |-> "RESULT_OK"]

\* one delay(500) of the lights test, in clock units of the model
LightsTestDelayMs == 1

\* Mutant of MockTrafficLight_PerformLightsTest: the lights are not turned
\* off at the end
MockTrafficLight_PerformLightsTest_GreenStays(t) ==
  IF ~IsInitialized(t)
    THEN [tl |-> t, result |-> "RESULT_NOT_READY", delayMs |-> 0,
          steps |-> <<>>]
  ELSE
    LET r1 == MockTrafficLight_TurnOn(t, "RedLight")
        r2 == MockTrafficLight_TurnOn(r1.tl, "YellowLight")
        r3 == MockTrafficLight_TurnOn(r2.tl, "GreenLight")
    IN [tl |-> r3.tl, result |-> r3.result,
        delayMs |-> 3 * LightsTestDelayMs,
        steps |-> <<r1.tl, r2.tl, r3.tl, r3.tl>>]

\* Also gives the time spent in delay(): one delay after each light turned
\* on, and the object after each of the calls made (steps).
MockTrafficLight_PerformLightsTest(t) ==
  IF ~IsInitialized(t)
    THEN [tl |-> t, result |-> "RESULT_NOT_READY", delayMs |-> 0,
          steps |-> <<>>]
  ELSE
    LET r1 == MockTrafficLight_TurnOn(t, "RedLight")
        r2 == IF r1.result = "RESULT_OK"
                THEN MockTrafficLight_TurnOn(r1.tl, "YellowLight") ELSE r1
        r3 == IF r2.result = "RESULT_OK"
                THEN MockTrafficLight_TurnOn(r2.tl, "GreenLight") ELSE r2
        r4 == IF r3.result = "RESULT_OK"
                THEN MockTrafficLight_SetAllLightsOff(r3.tl) ELSE r3
        n  == (IF r1.result = "RESULT_OK" THEN 1 ELSE 0)
              + (IF r2.result = "RESULT_OK" THEN 1 ELSE 0)
              + (IF r3.result = "RESULT_OK" THEN 1 ELSE 0)
    IN [tl |-> r4.tl, result |-> r4.result, delayMs |-> n * LightsTestDelayMs,
        steps |-> <<r1.tl>>
                    \o (IF r1.result = "RESULT_OK" THEN <<r2.tl>> ELSE <<>>)
                    \o (IF r2.result = "RESULT_OK" THEN <<r3.tl>> ELSE <<>>)
                    \o (IF r3.result = "RESULT_OK" THEN <<r4.tl>> ELSE <<>>)]

\* MockTrafficLight::Init; named is configuration.name != NULL
MockTrafficLight_InitOf(t, named) ==
  IF IsInitialized(t) THEN [tl |-> t, result |-> "RESULT_BUSY"]
  ELSE IF ~named THEN [tl |-> t, result |-> "RESULT_BAD_PARAM"]
  ELSE [tl |-> [MockTrafficLight_SetAllLightsOff(t).tl
                  EXCEPT !._initDone = TRUE],
        result |-> "RESULT_OK"]

\* MockTrafficLight::Deinit
MockTrafficLight_DeinitOf(t) ==
  [MockTrafficLight_SetAllLightsOff(t).tl EXCEPT !._initDone = FALSE]

(***************************************************************************)
(* StateMachine.                                                           *)
(***************************************************************************)
StateMachine_Constructed ==
  [_initDone |-> FALSE, _state |-> "Invalid", _previousState |-> "Invalid",
   _distanceSensor |-> FALSE, _trafficLight |-> FALSE,
   _previousDistance |-> UINT32_MAX, _previousTime |-> 0,
   _maxDistanceThresholdMm |-> 0, _farThresholdMm |-> 0,
   _nearThresholdMm |-> 0, _movingDistanceDetectionThresholdMm |-> 0,
   _movingTimeThresholdMs |-> 0, _holdingTimeThresholdMs |-> 0]

\* StateMachine::Config; a pointer is TRUE when it is not nullptr
Config(maxMm, farMm, nearMm, movingMm, movingMs, holdingMs, sensor, light) ==
  [distanceSensor |-> sensor, trafficLight |-> light,
   maxDistanceThresholdMm |-> maxMm, farThresholdMm |-> farMm,
   nearThresholdMm |-> nearMm,
   movingDistanceDetectionThresholdMm |-> movingMm,
   movingTimeThresholdMs |-> movingMs, holdingTimeThresholdMs |-> holdingMs]

\* The configurations Init is called with: one with both collaborators,
\* and one for each missing collaborator.
Configs ==
  { Config(3, 2, 1, 1, 1, 2, TRUE, TRUE),
    Config(3, 2, 1, 1, 1, 2, FALSE, TRUE),
    Config(3, 2, 1, 1, 1, 2, TRUE, FALSE) }

\* The samples a sensor reports with RESULT_OK
Samples == 0..MaxSampleMm

\* What a call of IDistanceSensor::MeasureDistance gives: a result, and
\* the sample written when the result is RESULT_OK
SensorReadings ==
  [result : {"RESULT_OK"}, sample : Samples]
    \cup [result : SensorResult \ {"RESULT_OK"}, sample : {0}]

\* The history record of a step that has nothing to report
NoLast ==
  [op |-> "none", outcome |-> "returned", from |-> "Invalid",
   result |-> "none", distance |-> 0, deltaT |-> 0, deltaD |-> 0,
   dir |-> "none", cmds |-> <<>>, testResult |-> "none", calls |-> <<>>,
   time |-> 0]

\* Mutant of MeasureDistance: RESULT_TIMEOUT is handled as a fatal result
MeasureDistance_TimeoutIsFatal(result, sample) ==
  IF result = "RESULT_OK" THEN [outcome |-> "returned", distance |-> sample,
        calls |-> <<"MeasureDistance">>]
  ELSE IF result = "RESULT_DEV_ERR"
    THEN [outcome |-> "reset", distance |-> 0,
          calls |-> <<"MeasureDistance">>]
  ELSE [outcome |-> "aborted", distance |-> 0,
          calls |-> <<"MeasureDistance">>]

\* Mutant of MeasureDistance: RESULT_NOT_READY returns the initial distance
MeasureDistance_NotReadyReturns(result, sample) ==
  IF result = "RESULT_OK" THEN [outcome |-> "returned", distance |-> sample,
        calls |-> <<"MeasureDistance">>]
  ELSE IF result = "RESULT_TIMEOUT"
    THEN [outcome |-> "returned", distance |-> UINT32_MAX,
          calls |-> <<"MeasureDistance">>]
  ELSE IF result = "RESULT_DEV_ERR"
    THEN [outcome |-> "reset", distance |-> 0,
          calls |-> <<"MeasureDistance">>]
  ELSE IF result = "RESULT_NOT_READY"
    THEN [outcome |-> "returned", distance |-> 0,
          calls |-> <<"MeasureDistance">>]
  ELSE [outcome |-> "aborted", distance |-> 0,
          calls |-> <<"MeasureDistance">>]

\* Mutant of MeasureDistance: a timed-out measurement is tried again
MeasureDistance_AsksAgain(result, sample) ==
  IF result = "RESULT_OK"
    THEN [outcome |-> "returned", distance |-> sample,
          calls |-> <<"MeasureDistance">>]
  ELSE IF result = "RESULT_TIMEOUT"
    THEN [outcome |-> "returned", distance |-> UINT32_MAX,
          calls |-> <<"MeasureDistance", "MeasureDistance">>]
  ELSE IF result = "RESULT_DEV_ERR"
    THEN [outcome |-> "reset", distance |-> 0,
          calls |-> <<"MeasureDistance">>]
  ELSE [outcome |-> "aborted", distance |-> 0,
        calls |-> <<"MeasureDistance">>]

\* StateMachine::MeasureDistance: the sensor returned `result` and, with
\* RESULT_OK, wrote `sample`.  calls lists the calls made on the sensor.
MeasureDistance(result, sample) ==
  IF result = "RESULT_OK" THEN [outcome |-> "returned", distance |-> sample,
        calls |-> <<"MeasureDistance">>]
  ELSE IF result = "RESULT_TIMEOUT"
    THEN [outcome |-> "returned", distance |-> UINT32_MAX,
          calls |-> <<"MeasureDistance">>]
  ELSE IF result = "RESULT_DEV_ERR"
    THEN [outcome |-> "reset", distance |-> 0,
          calls |-> <<"MeasureDistance">>]
  ELSE IF result = "RESULT_NOT_READY"
    THEN [outcome |-> "aborted", distance |-> 0,
          calls |-> <<"MeasureDistance">>]
  ELSE [outcome |-> "aborted", distance |-> 0,
          calls |-> <<"MeasureDistance">>]

\* deltaD of Update (lines 81-83), as the set of values the expression can
\* have: (int32_t)x * (-1) overflows for x = INT32_MIN, which is undefined.
DeltaD(distance, previousDistance) ==
  IF distance > previousDistance
    THEN { ToInt32(ToUint32(distance - previousDistance)) }
    ELSE LET x == ToInt32(ToUint32(previousDistance - distance))
         IN IF x = INT32_MIN THEN Int32 ELSE { x * (-1) }

\* Mutant of GetMovingDirection: the distance guard is missing
GetMovingDirection_NoDistanceGuard(deltaT, deltaD) ==
  IF deltaT > sm._movingTimeThresholdMs
    THEN IF deltaD = INT32_MIN THEN MovingDirection
         ELSE { IF deltaD > 0 THEN "Backward" ELSE "Forward" }
    ELSE { "Stopped" }

\* Mutant of GetMovingDirection: the time guard compares with >=
GetMovingDirection_TimeGuardNotStrict(deltaT, deltaD) ==
  IF deltaT >= sm._movingTimeThresholdMs
    THEN IF deltaD = INT32_MIN THEN MovingDirection
         ELSE IF (IF deltaD > 0 THEN deltaD ELSE -deltaD)
                   > sm._movingDistanceDetectionThresholdMm
           THEN { IF deltaD > 0 THEN "Backward" ELSE "Forward" }
           ELSE { "Stopped" }
    ELSE { "Stopped" }

\* Mutant of GetMovingDirection: the distance guard compares with >=
GetMovingDirection_DistanceGuardNotStrict(deltaT, deltaD) ==
  IF deltaT > sm._movingTimeThresholdMs
    THEN IF deltaD = INT32_MIN THEN MovingDirection
         ELSE IF (IF deltaD > 0 THEN deltaD ELSE -deltaD)
                   >= sm._movingDistanceDetectionThresholdMm
           THEN { IF deltaD > 0 THEN "Backward" ELSE "Forward" }
           ELSE { "Stopped" }
    ELSE { "Stopped" }

\* StateMachine::GetMovingDirection, as the set of values it can return:
\* abs() is the macro ((x)>0?(x):-(x)), whose -(x) overflows for INT32_MIN.
GetMovingDirection(deltaT, deltaD) ==
  IF deltaT > sm._movingTimeThresholdMs
    THEN IF deltaD = INT32_MIN THEN MovingDirection
         ELSE IF (IF deltaD > 0 THEN deltaD ELSE -deltaD)
                   > sm._movingDistanceDetectionThresholdMm
           THEN { IF deltaD > 0 THEN "Backward" ELSE "Forward" }
           ELSE { "Stopped" }
    ELSE { "Stopped" }

\* Mutant of TierCommand: the near threshold compares with >=
TierCommand_NearNotStrict(distance, maxMm, farMm, nearMm) ==
  IF distance > maxMm THEN "SetAllLightsOff"
  ELSE IF distance > farMm THEN "GreenLight"
  ELSE IF distance >= nearMm THEN "YellowLight"
  ELSE "RedLight"

\* Mutant of TierCommand: the maximum-range cutoff is not tested
TierCommand_NoCutoff(distance, maxMm, farMm, nearMm) ==
  IF distance > farMm THEN "GreenLight"
  ELSE IF distance > nearMm THEN "YellowLight"
  ELSE "RedLight"

\* The if-else chain of StateMachine::SetTrafficLights: the call it makes on
\* the light, SetAllLightsOff() or TurnOn of the light named
TierCommand(distance, maxMm, farMm, nearMm) ==
  IF distance > maxMm THEN "SetAllLightsOff"
  ELSE IF distance > farMm THEN "GreenLight"
  ELSE IF distance > nearMm THEN "YellowLight"
  ELSE "RedLight"

\* StateMachine::SetTrafficLights on the light t: the light after the call,
\* the command sent and whether assert(result == RESULT_OK) failed.
SetTrafficLights(t, distance) ==
  LET cmd == TierCommand(distance, sm._maxDistanceThresholdMm,
                         sm._farThresholdMm, sm._nearThresholdMm)
      r == IF cmd = "SetAllLightsOff" THEN MockTrafficLight_SetAllLightsOff(t)
           ELSE MockTrafficLight_TurnOn(t, cmd)
  IN [tl |-> r.tl, cmd |-> cmd, assertFailed |-> r.result # "RESULT_OK"]

\* StateMachine::SetAllLightsOff: the result of the light is dropped
StateMachine_SetAllLightsOff(t) == MockTrafficLight_SetAllLightsOff(t).tl

\* StateMachine::TestLights
TestLights(t) == MockTrafficLight_PerformLightsTest(t)

(***************************************************************************)
(* The cases of the switch of Update.  Each gives the next state, the new  *)
(* _previousTime, the light after the case, the commands sent to the       *)
(* light, whether an assertion failed in the case, and the time it spent   *)
(* in delay().                                                             *)
(***************************************************************************)
\* Mutant of CaseInitializing: the result of the lights test is not read
CaseInitializing_IgnoresTest(time, deltaT, distance, movingDirection) ==
  LET r == TestLights(tl)
  IN [nextState |-> "Idle",
      previousTime |-> time, tl |-> r.tl, cmds |-> <<"PerformLightsTest">>,
      assertFailed |-> FALSE, delayMs |-> r.delayMs, testResult |-> r.result]

\* Mutant of CaseInitializing: a failed lights test is tried again by the
\* next Update
CaseInitializing_FailureRetries(time, deltaT, distance, movingDirection) ==
  LET r == TestLights(tl)
  IN [nextState |-> IF r.result # "RESULT_OK" THEN sm._state ELSE "Idle",
      previousTime |-> time, tl |-> r.tl, cmds |-> <<"PerformLightsTest">>,
      assertFailed |-> FALSE, delayMs |-> r.delayMs, testResult |-> r.result]

CaseInitializing(time, deltaT, distance, movingDirection) ==
  LET r == TestLights(tl)
  IN [nextState |-> IF r.result # "RESULT_OK" THEN "Error" ELSE "Idle",
      previousTime |-> time, tl |-> r.tl, cmds |-> <<"PerformLightsTest">>,
      assertFailed |-> FALSE, delayMs |-> r.delayMs, testResult |-> r.result]

\* Mutant of CaseIdle: the two moving directions are exchanged
CaseIdle_DirectionsSwapped(time, deltaT, distance, movingDirection) ==
  [nextState |-> IF movingDirection = "Backward" THEN "SubjectApproaching"
                 ELSE IF movingDirection = "Forward" THEN "SubjectRetreating"
                 ELSE "Idle",
   previousTime |-> time,
   tl |-> IF movingDirection = "Stopped"
            THEN StateMachine_SetAllLightsOff(tl) ELSE tl,
   cmds |-> IF movingDirection = "Stopped" THEN <<"SetAllLightsOff">> ELSE <<>>,
   assertFailed |-> FALSE, delayMs |-> 0, testResult |-> "none"]

\* Mutant of CaseIdle: the motion timer is reset only when a direction is
\* detected
CaseIdle_TimerKeptWhenStopped(time, deltaT, distance, movingDirection) ==
  [nextState |-> IF movingDirection = "Backward" THEN "SubjectRetreating"
                 ELSE IF movingDirection = "Forward" THEN "SubjectApproaching"
                 ELSE "Idle",
   previousTime |-> IF movingDirection = "Stopped"
                      THEN sm._previousTime ELSE time,
   tl |-> IF movingDirection = "Stopped"
            THEN StateMachine_SetAllLightsOff(tl) ELSE tl,
   cmds |-> IF movingDirection = "Stopped" THEN <<"SetAllLightsOff">> ELSE <<>>,
   assertFailed |-> FALSE, delayMs |-> 0, testResult |-> "none"]

CaseIdle(time, deltaT, distance, movingDirection) ==
  [nextState |-> IF movingDirection = "Backward" THEN "SubjectRetreating"
                 ELSE IF movingDirection = "Forward" THEN "SubjectApproaching"
                 ELSE "Idle",
   previousTime |-> time,
   tl |-> IF movingDirection = "Stopped"
            THEN StateMachine_SetAllLightsOff(tl) ELSE tl,
   cmds |-> IF movingDirection = "Stopped" THEN <<"SetAllLightsOff">> ELSE <<>>,
   assertFailed |-> FALSE, delayMs |-> 0, testResult |-> "none"]

\* Mutant of CaseSubjectApproaching: the hold time compares with >=
CaseSubjectApproaching_HoldNotStrict(time, deltaT, distance, movingDirection) ==
  LET s == SetTrafficLights(tl, distance)
      hold == movingDirection = "Stopped"
                /\ deltaT >= sm._holdingTimeThresholdMs
  IN IF s.assertFailed
       THEN [nextState |-> sm._state, previousTime |-> sm._previousTime,
             tl |-> s.tl, cmds |-> <<s.cmd>>, assertFailed |-> TRUE,
             delayMs |-> 0, testResult |-> "none"]
       ELSE [nextState |-> IF hold THEN "Idle"
                           ELSE IF movingDirection = "Backward"
                             THEN "SubjectRetreating"
                           ELSE IF movingDirection = "Forward"
                             THEN "SubjectApproaching"
                           ELSE sm._state,
             previousTime |-> IF movingDirection = "Stopped"
                                THEN sm._previousTime ELSE time,
             tl |-> IF hold THEN StateMachine_SetAllLightsOff(s.tl) ELSE s.tl,
             cmds |-> IF hold THEN <<s.cmd, "SetAllLightsOff">> ELSE <<s.cmd>>,
             assertFailed |-> FALSE, delayMs |-> 0, testResult |-> "none"]

\* The cases SubjectApproaching and SubjectRetreating have the same text
\* but for the state they keep
CaseSubjectApproaching(time, deltaT, distance, movingDirection) ==
  LET s == SetTrafficLights(tl, distance)
      hold == movingDirection = "Stopped"
                /\ deltaT > sm._holdingTimeThresholdMs
  IN IF s.assertFailed
       THEN [nextState |-> sm._state, previousTime |-> sm._previousTime,
             tl |-> s.tl, cmds |-> <<s.cmd>>, assertFailed |-> TRUE,
             delayMs |-> 0, testResult |-> "none"]
       ELSE [nextState |-> IF hold THEN "Idle"
                           ELSE IF movingDirection = "Backward"
                             THEN "SubjectRetreating"
                           ELSE IF movingDirection = "Forward"
                             THEN "SubjectApproaching"
                           ELSE sm._state,
             previousTime |-> IF movingDirection = "Stopped"
                                THEN sm._previousTime ELSE time,
             tl |-> IF hold THEN StateMachine_SetAllLightsOff(s.tl) ELSE s.tl,
             cmds |-> IF hold THEN <<s.cmd, "SetAllLightsOff">> ELSE <<s.cmd>>,
             assertFailed |-> FALSE, delayMs |-> 0, testResult |-> "none"]

\* Mutant of CaseSubjectRetreating: case Forward does not reset the timer
CaseSubjectRetreating_NoTimerReset(time, deltaT, distance, movingDirection) ==
  LET s == SetTrafficLights(tl, distance)
      hold == movingDirection = "Stopped"
                /\ deltaT > sm._holdingTimeThresholdMs
  IN IF s.assertFailed
       THEN [nextState |-> sm._state, previousTime |-> sm._previousTime,
             tl |-> s.tl, cmds |-> <<s.cmd>>, assertFailed |-> TRUE,
             delayMs |-> 0, testResult |-> "none"]
       ELSE [nextState |-> IF hold THEN "Idle"
                           ELSE IF movingDirection = "Backward"
                             THEN "SubjectRetreating"
                           ELSE IF movingDirection = "Forward"
                             THEN "SubjectApproaching"
                           ELSE sm._state,
             previousTime |-> IF movingDirection = "Backward"
                                THEN time ELSE sm._previousTime,
             tl |-> IF hold THEN StateMachine_SetAllLightsOff(s.tl) ELSE s.tl,
             cmds |-> IF hold THEN <<s.cmd, "SetAllLightsOff">> ELSE <<s.cmd>>,
             assertFailed |-> FALSE, delayMs |-> 0, testResult |-> "none"]

\* Mutant of CaseSubjectRetreating: the lights are left as they are when the
\* hold time is over
CaseSubjectRetreating_HoldKeepsLights(time, deltaT, distance, movingDirection) ==
  LET s == SetTrafficLights(tl, distance)
      hold == movingDirection = "Stopped"
                /\ deltaT > sm._holdingTimeThresholdMs
  IN IF s.assertFailed
       THEN [nextState |-> sm._state, previousTime |-> sm._previousTime,
             tl |-> s.tl, cmds |-> <<s.cmd>>, assertFailed |-> TRUE,
             delayMs |-> 0, testResult |-> "none"]
       ELSE [nextState |-> IF hold THEN "Idle"
                           ELSE IF movingDirection = "Backward"
                             THEN "SubjectRetreating"
                           ELSE IF movingDirection = "Forward"
                             THEN "SubjectApproaching"
                           ELSE sm._state,
             previousTime |-> IF movingDirection = "Stopped"
                                THEN sm._previousTime ELSE time,
             tl |-> s.tl, cmds |-> <<s.cmd>>,
             assertFailed |-> FALSE, delayMs |-> 0, testResult |-> "none"]

CaseSubjectRetreating(time, deltaT, distance, movingDirection) ==
  LET s == SetTrafficLights(tl, distance)
      hold == movingDirection = "Stopped"
                /\ deltaT > sm._holdingTimeThresholdMs
  IN IF s.assertFailed
       THEN [nextState |-> sm._state, previousTime |-> sm._previousTime,
             tl |-> s.tl, cmds |-> <<s.cmd>>, assertFailed |-> TRUE,
             delayMs |-> 0, testResult |-> "none"]
       ELSE [nextState |-> IF hold THEN "Idle"
                           ELSE IF movingDirection = "Backward"
                             THEN "SubjectRetreating"
                           ELSE IF movingDirection = "Forward"
                             THEN "SubjectApproaching"
                           ELSE sm._state,
             previousTime |-> IF movingDirection = "Stopped"
                                THEN sm._previousTime ELSE time,
             tl |-> IF hold THEN StateMachine_SetAllLightsOff(s.tl) ELSE s.tl,
             cmds |-> IF hold THEN <<s.cmd, "SetAllLightsOff">> ELSE <<s.cmd>>,
             assertFailed |-> FALSE, delayMs |-> 0, testResult |-> "none"]

\* Mutant of CaseError: the assertion is compiled out and the case breaks
CaseError_NoAssert(time, deltaT, distance, movingDirection) ==
  [nextState |-> sm._state, previousTime |-> sm._previousTime, tl |-> tl,
   cmds |-> <<>>, assertFailed |-> FALSE, delayMs |-> 0,
   testResult |-> "none"]

\* case State::Error: assert(_state != State::Error) fails
CaseError(time, deltaT, distance, movingDirection) ==
  [nextState |-> sm._state, previousTime |-> sm._previousTime, tl |-> tl,
   cmds |-> <<>>, assertFailed |-> TRUE, delayMs |-> 0,
   testResult |-> "none"]

\* case State::Invalid and default
CaseInvalid(time, deltaT, distance, movingDirection) ==
  [nextState |-> "Error", previousTime |-> sm._previousTime, tl |-> tl,
   cmds |-> <<>>, assertFailed |-> FALSE, delayMs |-> 0, testResult |-> "none"]

Switch(time, deltaT, distance, movingDirection) ==
  IF sm._state = "Initializing"
    THEN CaseInitializing(time, deltaT, distance, movingDirection)
  ELSE IF sm._state = "Idle"
    THEN CaseIdle(time, deltaT, distance, movingDirection)
  ELSE IF sm._state = "SubjectApproaching"
    THEN CaseSubjectApproaching(time, deltaT, distance, movingDirection)
  ELSE IF sm._state = "SubjectRetreating"
    THEN CaseSubjectRetreating(time, deltaT, distance, movingDirection)
  ELSE IF sm._state = "Error"
    THEN CaseError(time, deltaT, distance, movingDirection)
  ELSE CaseInvalid(time, deltaT, distance, movingDirection)

(***************************************************************************)
(* DistanceSensor (src/DistanceSensor.cpp), the ranging driver, on the     *)
(* pins of the board.                                                      *)
(***************************************************************************)
SignalPolarity == {"ActiveHigh", "ActiveLow"}

\* The construction parameters HCSR04.cpp gives the driver, scaled to the
\* width of the microsecond clock (the longest wait for an edge fits twice
\* in the clock's period)
minTriggerPulseDurationUs == 5
minDistanceMm == 1
maxDistanceMm == 1

\* Arduino.h: #define NOT_A_PIN 0
NOT_A_PIN == 0
Pins == {NOT_A_PIN, 1, 2, 3}

\* DistanceSensor::DistanceSensor
DistanceSensor_Constructed(triggerPolarity, echoPolarity) ==
  [_initDone |-> FALSE, _name |-> "",
   _triggerPin |-> NOT_A_PIN, _echoPin |-> NOT_A_PIN,
   _minTriggerPulseDurationUs |-> minTriggerPulseDurationUs,
   _minDistanceMm |-> minDistanceMm,
   _maxDistanceMm |-> maxDistanceMm,
   _triggerPolarity |-> triggerPolarity, _echoPolarity |-> echoPolarity]

\* the pins after a reset of the board: inputs, output latches low
Board_Reset == [mode |-> [p \in Pins |-> "INPUT"], level |-> [p \in Pins |-> "LOW"]]

\* pinMode and digitalWrite of the Arduino core; making a pin an input also
\* clears its output latch (no pull-up)
pinMode(h, pin, mode) ==
  [h EXCEPT !.mode[pin] = mode,
            !.level[pin] = IF mode = "INPUT" THEN "LOW" ELSE @]
digitalWrite(h, pin, level) == [h EXCEPT !.level[pin] = level]

\* IDistanceSensor::Config; name is "" for NULL
SensorConfigs ==
  [name : {"", "HC-SR04"}, triggerPin : {1, 2}, echoPin : {1, 2}]

\* the ambient temperature DistanceSensor::MeasureDistance(distance) passes
AmbientTemperature == 20 * 10

\* SpeedOfSound in hundredths of m/s: 331.4 + 0.6 * T / 10
SpeedOfSound(ambientTemperature) == 33140 + 6 * ambientTemperature

\* Mutant of Time2Distance: the distance is rounded up
Time2Distance_RoundsUp(ambientTemperature, timeUs) ==
  (timeUs * SpeedOfSound(ambientTemperature) + 199999) \div 200000

\* Time2Distance: timeUs / 1e6 * (speed / 2) * 1000, truncated
Time2Distance(ambientTemperature, timeUs) ==
  (timeUs * SpeedOfSound(ambientTemperature)) \div 200000

\* Distance2Time: distanceMm / 1000 / (speed / 2) * 1e6, truncated
Distance2Time(ambientTemperature, distanceMm) ==
  (distanceMm * 200000) \div SpeedOfSound(ambientTemperature)

\* SetTriggerPintState: the level written for active / inactive
TriggerLevel(d, active) ==
  IF active THEN (IF d._triggerPolarity = "ActiveHigh" THEN "HIGH" ELSE "LOW")
  ELSE (IF d._triggerPolarity = "ActiveHigh" THEN "LOW" ELSE "HIGH")

\* Mutant of TriggerMeasurement: the pin is not driven inactive after the
\* pulse
TriggerMeasurement_NoRelease(d) ==
  << [active |-> FALSE, level |-> TriggerLevel(d, FALSE),
      heldUs |-> d._minTriggerPulseDurationUs \div 5],
     [active |-> TRUE, level |-> TriggerLevel(d, TRUE),
      heldUs |-> d._minTriggerPulseDurationUs],
     [active |-> TRUE, level |-> TriggerLevel(d, TRUE),
      heldUs |-> d._minTriggerPulseDurationUs \div 5] >>

\* TriggerMeasurement: the writes on the trigger pin, each with the time it
\* is held
TriggerMeasurement(d) ==
  << [active |-> FALSE, level |-> TriggerLevel(d, FALSE),
      heldUs |-> d._minTriggerPulseDurationUs \div 5],
     [active |-> TRUE, level |-> TriggerLevel(d, TRUE),
      heldUs |-> d._minTriggerPulseDurationUs],
     [active |-> FALSE, level |-> TriggerLevel(d, FALSE),
      heldUs |-> d._minTriggerPulseDurationUs \div 5] >>

\* The echo signal of one measurement: the sensor makes its echo output
\* active riseAt microseconds after the polling starts and keeps it active
\* for width microseconds (width 0: no echo; width EndlessUs: an echo that
\* outlasts every wait).  The level on the pin is the one the sensor's
\* polarity gives.
EndlessUs == 8 * Modulus

Echoes ==
  [riseAt : 0..(Distance2Time(AmbientTemperature, maxDistanceMm) + 1),
   width : 0..(Distance2Time(AmbientTemperature, maxDistanceMm) + 2)
             \cup {EndlessUs}]

digitalRead(d, echo, t) ==
  LET active == echo.riseAt <= t /\ t < echo.riseAt + echo.width
  IN IF d._echoPolarity = "ActiveHigh" THEN active ELSE ~active

\* GetEchoPinState
GetEchoPinState(d, echo, t) ==
  LET rawPinState == digitalRead(d, echo, t)
  IN IF d._echoPolarity = "ActiveHigh" THEN rawPinState ELSE ~rawPinState

\* A polling loop that has not ended after this many microseconds never ends:
\* the echo is over and the clock has been through its whole period
HorizonUs == 4 * Modulus

\* One polling loop of ReadDistance,
\*   while ((echoPinState == keep) && (time < endTime))
\*     { echoPinState = GetEchoPinState(); time = micros(); }
\* started us0 + t microseconds on the clock; a turn takes step microseconds.
RECURSIVE Poll(_, _, _, _, _, _, _, _, _, _)
Poll(d, echo, step, us0, keep, endTime, time, t, echoPinState, polls) ==
  IF echoPinState = keep /\ time < endTime
    THEN IF t > HorizonUs
           THEN [hung |-> TRUE, time |-> time, t |-> t,
                 echoPinState |-> echoPinState, polls |-> polls]
           ELSE Poll(d, echo, step, us0, keep, endTime,
                     ToUint32(us0 + t + step), t + step,
                     GetEchoPinState(d, echo, t), polls + 1)
    ELSE [hung |-> FALSE, time |-> time, t |-> t,
          echoPinState |-> echoPinState, polls |-> polls]

\* DistanceSensor::ReadDistance, entered with micros() = us0 and distance = 0
ReadDistance(d, ambientTemperature, us0, echo, step) ==
  LET maxWaitDurationUs == Distance2Time(ambientTemperature, d._maxDistanceMm)
      startTime == us0
      rise == CHOOSE r \in {Poll(d, echo, step, us0, FALSE,
                                  ToUint32(startTime + maxWaitDurationUs),
                                  startTime, 0, FALSE, 0)} : TRUE
      echoPulseStartTimeUs == ToUint32(us0 + rise.t)
      fall == CHOOSE f \in {Poll(d, echo, step, us0, TRUE,
                                  ToUint32(ToUint32(us0 + rise.t)
                                             + maxWaitDurationUs),
                                  rise.time, rise.t, rise.echoPinState,
                                  rise.polls)} : TRUE
  IN IF rise.hung
       THEN [outcome |-> "hung", result |-> "none", distance |-> 0,
             polls |-> rise.polls, waitedUs |-> rise.t]
     ELSE IF rise.echoPinState = FALSE
       THEN [outcome |-> "returned", result |-> "RESULT_TIMEOUT",
             distance |-> 0, polls |-> rise.polls, waitedUs |-> rise.t]
     ELSE IF fall.hung
       THEN [outcome |-> "hung", result |-> "none", distance |-> 0,
             polls |-> fall.polls, waitedUs |-> fall.t]
     ELSE IF fall.echoPinState = TRUE
       THEN [outcome |-> "returned", result |-> "RESULT_TIMEOUT",
             distance |-> 0, polls |-> fall.polls, waitedUs |-> fall.t]
     ELSE [outcome |-> "returned", result |-> "RESULT_OK",
           distance |-> Time2Distance(ambientTemperature,
                           ToUint32(fall.time - echoPulseStartTimeUs)),
           polls |-> fall.polls, waitedUs |-> fall.t]

\* The history record of the driver when nothing has been done
NoDLast ==
  [op |-> "none", outcome |-> "returned", result |-> "none", distance |-> 0,
   wasInit |-> FALSE, named |-> FALSE, writes |-> <<>>, polls |-> 0,
   waitedUs |-> 0, echo |-> [riseAt |-> 0, width |-> 0], step |-> 0,
   calledUs |-> 0, startUs |-> 0]

(***************************************************************************)
(* DiscreteLEDTrafficLight (src/DiscreteLEDTrafficLight.cpp) on the pins   *)
(* of the board.  Each operation maps the object l and the pins h to the   *)
(* object and the pins after the call and the Result returned.             *)
(***************************************************************************)
DiscreteLEDTrafficLight_Constructed ==
  [_initDone |-> FALSE, _name |-> "",
   _redLightPin |-> NOT_A_PIN, _yellowLightPin |-> NOT_A_PIN,
   _greenLightPin |-> NOT_A_PIN, _pinsPolarity |-> "ActiveHigh"]

\* ITrafficLight::Config; name is "" for NULL
LightConfigs ==
  [name : {"", "TL"}, redLightPin : {1}, yellowLightPin : {2},
   greenLightPin : {3}, pinsPolarity : SignalPolarity]

\* the values a caller can pass for a LightSelector and a LightState: the
\* enumerators, and a value that is none of them
LightSelectorValues == LightSelector \cup {"NoLight"}
LightStateValues == LightState \cup {"NoState"}

SetPintState(l, h, pin, active) ==
  digitalWrite(h, pin,
    IF active THEN (IF l._pinsPolarity = "ActiveHigh" THEN "HIGH" ELSE "LOW")
    ELSE (IF l._pinsPolarity = "ActiveHigh" THEN "LOW" ELSE "HIGH"))

GetPintState(l, h, pin) ==
  LET rawState == h.level[pin] # "LOW"
  IN IF rawState THEN l._pinsPolarity = "ActiveHigh"
     ELSE l._pinsPolarity # "ActiveHigh"

\* the three SetPintState calls of a case of SetState or of SetAllLightsOff
SetPintStates(l, h, red, yellow, green) ==
  SetPintState(l,
    SetPintState(l, SetPintState(l, h, l._redLightPin, red),
                 l._yellowLightPin, yellow),
    l._greenLightPin, green)

DiscreteLEDTrafficLight_SetState(l, h, whichLight, state) ==
  IF ~l._initDone THEN [led |-> l, hw |-> h, result |-> "RESULT_NOT_READY"]
  ELSE IF (state # "On") \/ (state # "On")
    THEN [led |-> l, hw |-> h, result |-> "RESULT_BAD_PARAM"]
  ELSE IF whichLight = "RedLight"
    THEN [led |-> l, hw |-> SetPintStates(l, h, TRUE, FALSE, FALSE),
          result |-> "RESULT_OK"]
  ELSE IF whichLight = "YellowLight"
    THEN [led |-> l, hw |-> SetPintStates(l, h, FALSE, TRUE, FALSE),
          result |-> "RESULT_OK"]
  ELSE IF whichLight = "GreenLight"
    THEN [led |-> l, hw |-> SetPintStates(l, h, FALSE, FALSE, TRUE),
          result |-> "RESULT_OK"]
  ELSE [led |-> l, hw |-> h, result |-> "RESULT_BAD_PARAM"]

DiscreteLEDTrafficLight_TurnOn(l, h, whichLight) ==
  DiscreteLEDTrafficLight_SetState(l, h, whichLight, "On")

DiscreteLEDTrafficLight_TurnOff(l, h, whichLight) ==
  DiscreteLEDTrafficLight_SetState(l, h, whichLight, "Off")

\* GetState of an initialised light: the state it gives for whichLight
DiscreteLEDTrafficLight_GetState(l, h, whichLight) ==
  LET pin == IF whichLight = "RedLight" THEN l._redLightPin
             ELSE IF whichLight = "YellowLight" THEN l._yellowLightPin
             ELSE l._greenLightPin
  IN IF GetPintState(l, h, pin) THEN "On" ELSE "Off"

DiscreteLEDTrafficLight_SetAllLightsOff(l, h) ==
  IF ~l._initDone THEN [led |-> l, hw |-> h, result |-> "RESULT_NOT_READY"]
  ELSE [led |-> l, hw |-> SetPintStates(l, h, FALSE, FALSE, FALSE),
        result |-> "RESULT_OK"]

\* Also gives the time spent in delay() and the pins after each of the calls
\* made (steps)
DiscreteLEDTrafficLight_PerformLightsTest(l, h) ==
  IF ~l._initDone
    THEN [led |-> l, hw |-> h, result |-> "RESULT_NOT_READY", delayMs |-> 0,
          steps |-> <<>>]
  ELSE
    LET r1 == DiscreteLEDTrafficLight_TurnOn(l, h, "RedLight")
        r2 == IF r1.result = "RESULT_OK"
                THEN DiscreteLEDTrafficLight_TurnOn(l, r1.hw, "YellowLight")
                ELSE r1
        r3 == IF r2.result = "RESULT_OK"
                THEN DiscreteLEDTrafficLight_TurnOn(l, r2.hw, "GreenLight")
                ELSE r2
        r4 == IF r3.result = "RESULT_OK"
                THEN DiscreteLEDTrafficLight_SetAllLightsOff(l, r3.hw)
                ELSE r3
        n  == (IF r1.result = "RESULT_OK" THEN 1 ELSE 0)
              + (IF r2.result = "RESULT_OK" THEN 1 ELSE 0)
              + (IF r3.result = "RESULT_OK" THEN 1 ELSE 0)
    IN [led |-> l, hw |-> r4.hw, result |-> r4.result,
        delayMs |-> n * LightsTestDelayMs,
        steps |-> <<r1.hw>>
                    \o (IF r1.result = "RESULT_OK" THEN <<r2.hw>> ELSE <<>>)
                    \o (IF r2.result = "RESULT_OK" THEN <<r3.hw>> ELSE <<>>)
                    \o (IF r3.result = "RESULT_OK" THEN <<r4.hw>> ELSE <<>>)]

\* DiscreteLEDTrafficLight::Init
DiscreteLEDTrafficLight_Init(l, h, configuration) ==
  IF l._initDone THEN [led |-> l, hw |-> h, result |-> "RESULT_BUSY"]
  ELSE IF configuration.name = ""
    THEN [led |-> l, hw |-> h, result |-> "RESULT_BAD_PARAM"]
  ELSE
    LET named == [l EXCEPT !._name = configuration.name,
                           !._redLightPin = configuration.redLightPin,
                           !._yellowLightPin = configuration.yellowLightPin,
                           !._greenLightPin = configuration.greenLightPin,
                           !._pinsPolarity = configuration.pinsPolarity]
        outputs == pinMode(pinMode(pinMode(h,
                       named._redLightPin, "OUTPUT"),
                       named._yellowLightPin, "OUTPUT"),
                       named._greenLightPin, "OUTPUT")
        off == DiscreteLEDTrafficLight_SetAllLightsOff(named, outputs)
    IN [led |-> [off.led EXCEPT !._initDone = TRUE], hw |-> off.hw,
        result |-> "RESULT_OK"]

\* DiscreteLEDTrafficLight::Deinit
DiscreteLEDTrafficLight_Deinit(l, h) ==
  LET off == DiscreteLEDTrafficLight_SetAllLightsOff(l, h)
  IN [led |-> [off.led EXCEPT !._name = "", !._initDone = FALSE],
      hw |-> pinMode(pinMode(pinMode(off.hw,
                 l._redLightPin, "INPUT"),
                 l._yellowLightPin, "INPUT"),
                 l._greenLightPin, "INPUT"),
      result |-> "none"]

\* the lights of a MockTrafficLight t that are on, and the lights of a
\* DiscreteLEDTrafficLight l on the pins h that are on
MockLit(t) ==
  { x \in LightSelector :
      \/ x = "RedLight" /\ t._redLightState = "On"
      \/ x = "YellowLight" /\ t._yellowLightState = "On"
      \/ x = "GreenLight" /\ t._greenLightState = "On" }

DiscreteLEDLit(l, h) ==
  { x \in LightSelector : DiscreteLEDTrafficLight_GetState(l, h, x) = "On" }

\* The history record of the lights when nothing has been done
NoLLast ==
  [kind |-> "none", op |-> "none", whichLight |-> "none", state |-> "none",
   result |-> "none", wasInit |-> FALSE, changed |-> FALSE, steps |-> <<>>]

\* No conversion made
NoConv ==
  [op |-> "none", ambientTemperature |-> 0, timeUs |-> 0, distanceMm |-> 0,
   backUs |-> 0]

(***************************************************************************)
(* The state after construction.                                           *)
(***************************************************************************)
Init ==
  /\ sm = StateMachine_Constructed
  /\ tl = MockTrafficLight_Constructed
  /\ clockMs = 0
  /\ pc = "running"
  /\ last = NoLast
  /\ ds = DistanceSensor_Constructed("ActiveHigh", "ActiveHigh")
  /\ hw = Board_Reset
  /\ usClock = 0
  /\ dlast = NoDLast
  /\ led = DiscreteLEDTrafficLight_Constructed
  /\ llast = NoLLast
  /\ conv = NoConv

\* A failed assert(): __assert logs and calls abort().  `result` is what
\* the sensor had returned to the operation, "none" if it was not asked.
Abort(op, result) ==
  /\ pc' = "aborted"
  /\ last' = [NoLast EXCEPT !.op = op, !.outcome = "aborted",
                            !.from = sm._state, !.result = result]
  /\ UNCHANGED <<sm, tl, clockMs>>

\* Reset(): jmp 0 restarts the program, every object is constructed again
\* and the clock starts again
Reset(op, result) ==
  /\ sm' = StateMachine_Constructed
  /\ tl' = MockTrafficLight_Constructed
  /\ clockMs' = 0
  /\ pc' = "running"
  /\ last' = [NoLast EXCEPT !.op = op, !.outcome = "reset",
                            !.from = sm._state, !.result = result]

\* StateMachine::Init
StateMachine_Init(configuration) ==
  /\ pc = "running"
  /\ UNCHANGED <<dsVars, ledVars, conv>>
  /\ IF sm._initDone \/ ~configuration.distanceSensor
        \/ ~configuration.trafficLight
       THEN Abort("Init", "none")
       ELSE /\ sm' = [sm EXCEPT
                  !._distanceSensor = configuration.distanceSensor,
                  !._trafficLight = configuration.trafficLight,
                  !._maxDistanceThresholdMm = configuration.maxDistanceThresholdMm,
                  !._farThresholdMm = configuration.farThresholdMm,
                  !._nearThresholdMm = configuration.nearThresholdMm,
                  !._movingDistanceDetectionThresholdMm =
                      configuration.movingDistanceDetectionThresholdMm,
                  !._movingTimeThresholdMs = configuration.movingTimeThresholdMs,
                  !._holdingTimeThresholdMs = configuration.holdingTimeThresholdMs,
                  !._state = "Initializing",
                  !._previousDistance = UINT32_MAX,
                  !._previousTime = 0,
                  !._initDone = TRUE]
            /\ last' = [NoLast EXCEPT !.op = "Init", !.from = sm._state]
            /\ UNCHANGED <<tl, clockMs, pc>>

\* StateMachine::Update.  The sensor returns `result` (and `sample` with
\* RESULT_OK); millis() is read dt after the last read of the clock and
\* again `tick` later.
Update(result, sample, dt, tick) ==
  /\ pc = "running"
  /\ UNCHANGED <<dsVars, ledVars, conv>>
  /\ LET m      == MeasureDistance(result, sample)
         time   == ToUint32(clockMs + dt)
         now    == ToUint32(time + tick)
         deltaT == ToUint32(now - sm._previousTime)
     IN IF ~sm._initDone THEN Abort("Update", "none")
        ELSE IF m.outcome = "reset" THEN Reset("Update", result)
        ELSE IF m.outcome = "aborted" THEN Abort("Update", result)
        ELSE
          \E deltaD \in DeltaD(m.distance, sm._previousDistance) :
          \E movingDirection \in GetMovingDirection(deltaT, deltaD) :
            LET step == Switch(time, deltaT, m.distance, movingDirection)
            IN /\ sm' = [sm EXCEPT
                     !._previousDistance = m.distance,
                     !._previousTime = step.previousTime,
                     !._previousState =
                         IF step.assertFailed THEN @ ELSE sm._state,
                     !._state =
                         IF step.assertFailed THEN @ ELSE step.nextState]
               /\ tl' = step.tl
               /\ clockMs' = ToUint32(now + step.delayMs)
               /\ pc' = IF step.assertFailed THEN "aborted" ELSE "running"
               /\ last' = [op |-> "Update",
                           outcome |-> IF step.assertFailed
                                         THEN "aborted" ELSE "returned",
                           from |-> sm._state, result |-> result,
                           distance |-> m.distance, deltaT |-> deltaT,
                           deltaD |-> deltaD, dir |-> movingDirection,
                           cmds |-> step.cmds,
                           testResult |-> step.testResult,
                           calls |-> m.calls \o step.cmds,
                           time |-> time]

\* MockTrafficLight::Init, called by the owner of the light; named is
\* configuration.name != NULL
MockTrafficLight_Init(named) ==
  /\ pc = "running"
  /\ UNCHANGED <<dsVars, ledVars, conv>>
  /\ LET r == MockTrafficLight_InitOf(tl, named)
     IN /\ tl' = r.tl
        /\ last' = [NoLast EXCEPT !.op = "TrafficLightInit",
                                  !.from = sm._state, !.result = r.result]
  /\ UNCHANGED <<sm, clockMs, pc>>

\* MockTrafficLight::Deinit, called by the owner of the light
MockTrafficLight_Deinit ==
  /\ pc = "running"
  /\ UNCHANGED <<dsVars, ledVars, conv>>
  /\ tl' = MockTrafficLight_DeinitOf(tl)
  /\ last' = [NoLast EXCEPT !.op = "TrafficLightDeinit", !.from = sm._state]
  /\ UNCHANGED <<sm, clockMs, pc>>

Next ==
  \/ \E configuration \in Configs : StateMachine_Init(configuration)
  \/ \E reading \in SensorReadings, dt \in 0..MaxDtMs, tick \in 0..1 :
       Update(reading.result, reading.sample, dt, tick)
  \/ \E named \in BOOLEAN : MockTrafficLight_Init(named)
  \/ MockTrafficLight_Deinit

Spec == Init /\ [][Next]_vars

\* The same program configured by a caller that also passes thresholds out
\* of order (near above far)
AnyThresholdConfigs ==
  { Config(3, 2, 1, 1, 1, 2, TRUE, TRUE),
    Config(3, 1, 2, 1, 1, 2, TRUE, TRUE) }

NextAnyThresholds ==
  \/ \E configuration \in AnyThresholdConfigs :
       StateMachine_Init(configuration)
  \/ \E reading \in SensorReadings, dt \in 0..MaxDtMs, tick \in 0..1 :
       Update(reading.result, reading.sample, dt, tick)
  \/ \E named \in BOOLEAN : MockTrafficLight_Init(named)
  \/ MockTrafficLight_Deinit

SpecAnyThresholds == Init /\ [][NextAnyThresholds]_vars

\* The same program when the owner of the light deinitialises it only
\* before the first Update
MockTrafficLight_DeinitBeforeUpdates ==
  /\ sm._state \in {"Invalid", "Initializing"}
  /\ MockTrafficLight_Deinit

NextLightKept ==
  \/ \E configuration \in Configs : StateMachine_Init(configuration)
  \/ \E reading \in SensorReadings, dt \in 0..MaxDtMs, tick \in 0..1 :
       Update(reading.result, reading.sample, dt, tick)
  \/ \E named \in BOOLEAN : MockTrafficLight_Init(named)
  \/ MockTrafficLight_DeinitBeforeUpdates

SpecLightKept == Init /\ [][NextLightKept]_vars

(***************************************************************************)
(* The ranging driver on its own: a DistanceSensor of either polarity is   *)
(* constructed, then initialised, deinitialised and asked for distances in *)
(* any order.                                                              *)
(***************************************************************************)
SensorInit ==
  /\ sm = StateMachine_Constructed
  /\ tl = MockTrafficLight_Constructed
  /\ clockMs = 0
  /\ pc = "running"
  /\ last = NoLast
  /\ \E triggerPolarity \in SignalPolarity, echoPolarity \in SignalPolarity :
       ds = DistanceSensor_Constructed(triggerPolarity, echoPolarity)
  /\ hw = Board_Reset
  /\ usClock = 0
  /\ dlast = NoDLast
  /\ led = DiscreteLEDTrafficLight_Constructed
  /\ llast = NoLLast
  /\ conv = NoConv

\* Mutant of DistanceSensor_IsInitialized: a pin assignment counts as
\* initialised
DistanceSensor_IsInitialized_ByPin(d) == d._triggerPin # NOT_A_PIN

\* DistanceSensor::IsInitialized
DistanceSensor_IsInitialized(d) == d._initDone

\* Mutant of DistanceSensor_Init: an initialised driver is configured again
DistanceSensor_Init_NoBusy(configuration) ==
  /\ dlast.outcome = "returned"
  /\ UNCHANGED <<smVars, ledVars, conv>>
  /\ LET result == IF configuration.name = "" THEN "RESULT_BAD_PARAM"
                   ELSE "RESULT_OK"
     IN /\ ds' = IF result = "RESULT_OK"
                   THEN [ds EXCEPT !._name = configuration.name,
                                   !._triggerPin = configuration.triggerPin,
                                   !._echoPin = configuration.echoPin,
                                   !._initDone = TRUE]
                   ELSE ds
        /\ hw' = IF result = "RESULT_OK"
                   THEN pinMode(pinMode(hw, configuration.triggerPin, "OUTPUT"),
                                configuration.echoPin, "INPUT")
                   ELSE hw
        /\ dlast' = [NoDLast EXCEPT !.op = "Init", !.result = result,
                                    !.wasInit = ds._initDone,
                                    !.named = configuration.name # ""]
  /\ UNCHANGED usClock

\* Mutant of DistanceSensor_Init: the pins are taken before the name is
\* tested
DistanceSensor_Init_PinsBeforeName(configuration) ==
  /\ dlast.outcome = "returned"
  /\ UNCHANGED <<smVars, ledVars, conv>>
  /\ LET result == IF DistanceSensor_IsInitialized(ds) THEN "RESULT_BUSY"
                   ELSE IF configuration.name = "" THEN "RESULT_BAD_PARAM"
                   ELSE "RESULT_OK"
     IN /\ ds' = IF result = "RESULT_OK"
                   THEN [ds EXCEPT !._name = configuration.name,
                                   !._triggerPin = configuration.triggerPin,
                                   !._echoPin = configuration.echoPin,
                                   !._initDone = TRUE]
                 ELSE IF result = "RESULT_BAD_PARAM"
                   THEN [ds EXCEPT !._triggerPin = configuration.triggerPin,
                                   !._echoPin = configuration.echoPin]
                 ELSE ds
        /\ hw' = IF result # "RESULT_BUSY"
                   THEN pinMode(pinMode(hw, configuration.triggerPin, "OUTPUT"),
                                configuration.echoPin, "INPUT")
                   ELSE hw
        /\ dlast' = [NoDLast EXCEPT !.op = "Init", !.result = result,
                                    !.wasInit = ds._initDone,
                                    !.named = configuration.name # ""]
  /\ UNCHANGED usClock

\* DistanceSensor::Init
DistanceSensor_Init(configuration) ==
  /\ dlast.outcome = "returned"
  /\ UNCHANGED <<smVars, ledVars, conv>>
  /\ LET result == IF DistanceSensor_IsInitialized(ds) THEN "RESULT_BUSY"
                   ELSE IF configuration.name = "" THEN "RESULT_BAD_PARAM"
                   ELSE "RESULT_OK"
     IN /\ ds' = IF result = "RESULT_OK"
                   THEN [ds EXCEPT !._name = configuration.name,
                                   !._triggerPin = configuration.triggerPin,
                                   !._echoPin = configuration.echoPin,
                                   !._initDone = TRUE]
                   ELSE ds
        /\ hw' = IF result = "RESULT_OK"
                   THEN pinMode(pinMode(hw, configuration.triggerPin, "OUTPUT"),
                                configuration.echoPin, "INPUT")
                   ELSE hw
        /\ dlast' = [NoDLast EXCEPT !.op = "Init", !.result = result,
                                    !.wasInit = ds._initDone,
                                    !.named = configuration.name # ""]
  /\ UNCHANGED usClock

\* Mutant of DistanceSensor_Deinit: the trigger pin is left as it is
DistanceSensor_Deinit_KeepsTrigger ==
  /\ dlast.outcome = "returned"
  /\ UNCHANGED <<smVars, ledVars, conv>>
  /\ ds' = [ds EXCEPT !._name = "", !._initDone = FALSE]
  /\ hw' = pinMode(hw, ds._echoPin, "INPUT")
  /\ dlast' = [NoDLast EXCEPT !.op = "Deinit", !.wasInit = ds._initDone]
  /\ UNCHANGED usClock

\* DistanceSensor::Deinit
DistanceSensor_Deinit ==
  /\ dlast.outcome = "returned"
  /\ UNCHANGED <<smVars, ledVars, conv>>
  /\ ds' = [ds EXCEPT !._name = "", !._initDone = FALSE]
  /\ hw' = pinMode(pinMode(hw, ds._echoPin, "INPUT"), ds._triggerPin, "INPUT")
  /\ dlast' = [NoDLast EXCEPT !.op = "Deinit", !.wasInit = ds._initDone]
  /\ UNCHANGED usClock

\* The writes of TriggerMeasurement on the board, in their order
RECURSIVE Board_Write(_, _, _)
Board_Write(h, pin, writes) ==
  IF writes = <<>> THEN h
  ELSE Board_Write(digitalWrite(h, pin, writes[1].level), pin, Tail(writes))

Board_Trigger(h, d) ==
  Board_Write(h, d._triggerPin, TriggerMeasurement(d))

\* DistanceSensor::MeasureDistance(distance): the sensor answers with `echo`,
\* a turn of the polling loops takes `step` microseconds
DistanceSensor_MeasureDistance(echo, step) ==
  /\ dlast.outcome = "returned"
  /\ UNCHANGED <<smVars, ledVars, conv>>
  /\ IF ~DistanceSensor_IsInitialized(ds)
       THEN /\ dlast' = [NoDLast EXCEPT !.op = "MeasureDistance",
                                        !.result = "RESULT_NOT_READY"]
            /\ UNCHANGED <<ds, hw, usClock>>
       ELSE LET writes == TriggerMeasurement(ds)
                us0 == ToUint32(usClock + writes[1].heldUs
                                  + writes[2].heldUs + writes[3].heldUs)
            IN \E r \in {ReadDistance(ds, AmbientTemperature, us0, echo, step)} :
               /\ hw' = Board_Trigger(hw, ds)
               /\ usClock' = ToUint32(us0 + r.waitedUs)
               /\ dlast' = [op |-> "MeasureDistance", outcome |-> r.outcome,
                            result |-> r.result, distance |-> r.distance,
                            wasInit |-> TRUE, named |-> FALSE,
                            writes |-> writes,
                            polls |-> r.polls, waitedUs |-> r.waitedUs,
                            echo |-> echo, step |-> step,
                            calledUs |-> usClock, startUs |-> us0]
               /\ UNCHANGED ds

\* Three echoes: none, a short pulse, a pulse that outlasts the wait
SomeEchoes ==
  { [riseAt |-> 0, width |-> 0], [riseAt |-> 1, width |-> 2],
    [riseAt |-> 0,
     width |-> Distance2Time(AmbientTemperature, maxDistanceMm) + 2] }

SensorNext ==
  \/ \E configuration \in SensorConfigs : DistanceSensor_Init(configuration)
  \/ DistanceSensor_Deinit
  \/ \E echo \in SomeEchoes, step \in 1..MaxPollStepUs :
       DistanceSensor_MeasureDistance(echo, step)

SensorSpec == SensorInit /\ [][SensorNext]_vars

(***************************************************************************)
(* Measurements: a driver of either polarity is initialised on its two     *)
(* pins and asked for distances, the sensor answering with every echo of   *)
(* Echoes at every value of the microsecond clock.                         *)
(***************************************************************************)
MeasureConfigs == { [name |-> "HC-SR04", triggerPin |-> 1, echoPin |-> 2] }

MeasureNext ==
  \/ \E configuration \in MeasureConfigs : DistanceSensor_Init(configuration)
  \/ \E echo \in Echoes, step \in 1..MaxPollStepUs :
       DistanceSensor_MeasureDistance(echo, step)

MeasureSpec == SensorInit /\ [][MeasureNext]_vars

(***************************************************************************)
(* The traffic lights on their own: a MockTrafficLight and a               *)
(* DiscreteLEDTrafficLight on the board after reset, called through        *)
(* ITrafficLight in any order.  kind selects the object called.            *)
(***************************************************************************)
LightKinds == {"Mock", "DiscreteLED"}

\* what a call leaves: the objects t2 and l2, the pins h2, the Result, the
\* lights on after each call made by a lights test, the time spent in delay()
LightCall(kind, op, whichLight, state, t2, l2, h2, result, steps, delayMs) ==
  /\ tl' = t2
  /\ led' = l2
  /\ hw' = h2
  /\ clockMs' = ToUint32(clockMs + delayMs)
  /\ llast' = [kind |-> kind, op |-> op, whichLight |-> whichLight,
               state |-> state, result |-> result,
               wasInit |-> IF kind = "Mock" THEN tl._initDone
                           ELSE led._initDone,
               changed |-> IF kind = "Mock" THEN MockLit(t2) # MockLit(tl)
                           ELSE h2.level # hw.level,
               steps |-> steps]
  /\ UNCHANGED <<sm, pc, last, ds, usClock, dlast, conv>>

TrafficLight_Init(kind, configuration) ==
  IF kind = "Mock"
    THEN LET r == MockTrafficLight_InitOf(tl, configuration.name # "")
         IN LightCall(kind, "Init", "none", "none", r.tl, led, hw, r.result,
                      <<>>, 0)
    ELSE LET r == DiscreteLEDTrafficLight_Init(led, hw, configuration)
         IN LightCall(kind, "Init", "none", "none", tl, r.led, r.hw, r.result,
                      <<>>, 0)

TrafficLight_Deinit(kind) ==
  IF kind = "Mock"
    THEN LightCall(kind, "Deinit", "none", "none",
                   MockTrafficLight_DeinitOf(tl), led, hw, "none", <<>>, 0)
    ELSE LET r == DiscreteLEDTrafficLight_Deinit(led, hw)
         IN LightCall(kind, "Deinit", "none", "none", tl, r.led, r.hw,
                      r.result, <<>>, 0)

TrafficLight_TurnOn(kind, whichLight) ==
  IF kind = "Mock"
    THEN LET r == MockTrafficLight_TurnOn(tl, whichLight)
         IN LightCall(kind, "TurnOn", whichLight, "On", r.tl, led, hw,
                      r.result, <<>>, 0)
    ELSE LET r == DiscreteLEDTrafficLight_TurnOn(led, hw, whichLight)
         IN LightCall(kind, "TurnOn", whichLight, "On", tl, r.led, r.hw,
                      r.result, <<>>, 0)

TrafficLight_TurnOff(kind, whichLight) ==
  IF kind = "Mock"
    THEN LET r == MockTrafficLight_TurnOff(tl, whichLight)
         IN LightCall(kind, "TurnOff", whichLight, "Off", r.tl, led, hw,
                      r.result, <<>>, 0)
    ELSE LET r == DiscreteLEDTrafficLight_TurnOff(led, hw, whichLight)
         IN LightCall(kind, "TurnOff", whichLight, "Off", tl, r.led, r.hw,
                      r.result, <<>>, 0)

TrafficLight_SetState(kind, whichLight, state) ==
  IF kind = "Mock"
    THEN LET r == MockTrafficLight_SetState(tl, whichLight, state)
         IN LightCall(kind, "SetState", whichLight, state, r.tl, led, hw,
                      r.result, <<>>, 0)
    ELSE LET r == DiscreteLEDTrafficLight_SetState(led, hw, whichLight, state)
         IN LightCall(kind, "SetState", whichLight, state, tl, r.led, r.hw,
                      r.result, <<>>, 0)

TrafficLight_SetAllLightsOff(kind) ==
  IF kind = "Mock"
    THEN LET r == MockTrafficLight_SetAllLightsOff(tl)
         IN LightCall(kind, "SetAllLightsOff", "none", "none", r.tl, led, hw,
                      r.result, <<>>, 0)
    ELSE LET r == DiscreteLEDTrafficLight_SetAllLightsOff(led, hw)
         IN LightCall(kind, "SetAllLightsOff", "none", "none", tl, r.led,
                      r.hw, r.result, <<>>, 0)

TrafficLight_PerformLightsTest(kind) ==
  IF kind = "Mock"
    THEN LET r == MockTrafficLight_PerformLightsTest(tl)
         IN LightCall(kind, "PerformLightsTest", "none", "none", r.tl, led,
                      hw, r.result,
                      [i \in 1..Len(r.steps) |-> MockLit(r.steps[i])],
                      r.delayMs)
    ELSE LET r == DiscreteLEDTrafficLight_PerformLightsTest(led, hw)
         IN LightCall(kind, "PerformLightsTest", "none", "none", tl, r.led,
                      r.hw, r.result,
                      [i \in 1..Len(r.steps) |->
                         DiscreteLEDLit(led, r.steps[i])],
                      r.delayMs)

LightNext ==
  \/ \E kind \in LightKinds, configuration \in LightConfigs :
       TrafficLight_Init(kind, configuration)
  \/ \E kind \in LightKinds : TrafficLight_Deinit(kind)
  \/ \E kind \in LightKinds, whichLight \in LightSelectorValues :
       TrafficLight_TurnOn(kind, whichLight)
  \/ \E kind \in LightKinds, whichLight \in LightSelectorValues :
       TrafficLight_TurnOff(kind, whichLight)
  \/ \E kind \in LightKinds, whichLight \in LightSelectorValues,
        state \in LightStateValues :
       TrafficLight_SetState(kind, whichLight, state)
  \/ \E kind \in LightKinds : TrafficLight_SetAllLightsOff(kind)
  \/ \E kind \in LightKinds : TrafficLight_PerformLightsTest(kind)

LightSpec == Init /\ [][LightNext]_vars

(***************************************************************************)
(* The conversions on their own: Time2Distance is applied to a pulse width *)
(* at an ambient temperature, and Distance2Time to the distance it gives.  *)
(***************************************************************************)
MaxEchoUs == 24000
MaxTemperatureC == 50
Temperatures == { 10 * c : c \in 0..MaxTemperatureC }

ConvInit ==
  /\ sm = StateMachine_Constructed
  /\ tl = MockTrafficLight_Constructed
  /\ clockMs = 0
  /\ pc = "running"
  /\ last = NoLast
  /\ ds = DistanceSensor_Constructed("ActiveHigh", "ActiveHigh")
  /\ hw = Board_Reset
  /\ usClock = 0
  /\ dlast = NoDLast
  /\ led = DiscreteLEDTrafficLight_Constructed
  /\ llast = NoLLast
  /\ \E ambientTemperature \in Temperatures, timeUs \in 0..MaxEchoUs :
       conv = [NoConv EXCEPT !.ambientTemperature = ambientTemperature,
                             !.timeUs = timeUs]

ConvertToDistance ==
  /\ conv.op = "none"
  /\ conv' = [conv EXCEPT
                !.op = "Time2Distance",
                !.distanceMm = Time2Distance(conv.ambientTemperature,
                                             conv.timeUs)]
  /\ UNCHANGED <<smVars, dsVars, ledVars>>

ConvertToTime ==
  /\ conv.op = "Time2Distance"
  /\ conv' = [conv EXCEPT
                !.op = "Distance2Time",
                !.backUs = Distance2Time(conv.ambientTemperature,
                                         conv.distanceMm)]
  /\ UNCHANGED <<smVars, dsVars, ledVars>>

ConvNext == ConvertToDistance \/ ConvertToTime

ConvSpec == ConvInit /\ [][ConvNext]_vars

(***************************************************************************)
(* Types.                                                                  *)
(***************************************************************************)
TypeOK ==
  /\ sm._state \in State
  /\ sm._previousDistance \in 0..UINT32_MAX
  /\ sm._previousTime \in 0..UINT32_MAX
  /\ clockMs \in 0..UINT32_MAX
  /\ pc \in {"running", "aborted"}
  /\ last.deltaD \in Int32
  /\ last.dir \in MovingDirection \cup {"none"}

(***************************************************************************)
(* Vocabulary of the properties.                                           *)
(***************************************************************************)
Moving == {"SubjectApproaching", "SubjectRetreating"}

\* the last step was an Update, and it returned to its caller
UpdateReturned == last.op = "Update" /\ last.outcome = "returned"

\* the lights that are on
Lit ==
  { l \in LightSelector :
      \/ l = "RedLight" /\ tl._redLightState = "On"
      \/ l = "YellowLight" /\ tl._yellowLightState = "On"
      \/ l = "GreenLight" /\ tl._greenLightState = "On" }

AllLightsOff == Lit = {}

\* Tier selection as the specification tabulates it: the lights lit for a
\* distance d
TierLights(d) ==
  IF d > sm._maxDistanceThresholdMm THEN {}
  ELSE IF sm._farThresholdMm < d /\ d <= sm._maxDistanceThresholdMm
    THEN {"GreenLight"}
  ELSE IF sm._nearThresholdMm < d /\ d <= sm._farThresholdMm
    THEN {"YellowLight"}
  ELSE {"RedLight"}

ThresholdsInOrder ==
  /\ sm._nearThresholdMm < sm._farThresholdMm
  /\ sm._farThresholdMm < sm._maxDistanceThresholdMm

Magnitude(x) == IF x < 0 THEN 0 - x ELSE x

(***************************************************************************)
(* C1: an Update that starts in Initializing and returns has run the       *)
(* lights test and nothing else on the light, and has moved to Idle when   *)
(* the test returned RESULT_OK and to Error when it returned anything      *)
(* else; a light that is not initialised answers RESULT_NOT_READY.         *)
(***************************************************************************)
C1_InitializingToIdleOrError ==
  (UpdateReturned /\ last.from = "Initializing") =>
     /\ last.cmds = <<"PerformLightsTest">>
     /\ sm._state \in {"Idle", "Error"}
     /\ (last.testResult = "RESULT_OK" => sm._state = "Idle")
     /\ (last.testResult # "RESULT_OK" => sm._state = "Error")
     /\ (~tl._initDone => last.testResult = "RESULT_NOT_READY")

C1_Witness ==
  /\ UpdateReturned /\ last.from = "Initializing"
  /\ last.testResult = "RESULT_NOT_READY" /\ sm._state = "Error"

(***************************************************************************)
(* C2 as stated: from Error the state never changes, and every Update      *)
(* that starts in Error ends in abort().                                   *)
(***************************************************************************)
C2_ErrorUpdateAlwaysAborts ==
  [][sm._state = "Error" =>
       /\ sm'._state = "Error"
       /\ (last'.op = "Update" => pc' = "aborted")]_vars

(***************************************************************************)
(* C2 amended: an Update that starts in Error never returns; it ends in    *)
(* abort() with the state still Error, unless the sensor answers           *)
(* RESULT_DEV_ERR, in which case the device restarts before the assertion  *)
(* is reached.  No other step changes the state either.                    *)
(***************************************************************************)
C2_ErrorTerminalUnlessRestart ==
  [][sm._state = "Error" =>
       \/ /\ sm'._state = "Error"
          /\ (last'.op = "Update" =>
                pc' = "aborted" /\ last'.result # "RESULT_DEV_ERR")
       \/ /\ last'.op = "Update" /\ last'.outcome = "reset"
          /\ last'.result = "RESULT_DEV_ERR"
          /\ sm' = StateMachine_Constructed]_vars

C2_Witness ==
  /\ last.op = "Update" /\ last.from = "Error" /\ last.outcome = "aborted"
  /\ last.result = "RESULT_OK" /\ sm._state = "Error" /\ pc = "aborted"

(***************************************************************************)
(* C3: the direction computed by an Update is Stopped unless               *)
(* deltaT > movingTimeThresholdMs and |deltaD| >                           *)
(* movingDistanceDetectionThresholdMm; when both hold it is Backward for   *)
(* deltaD > 0 and Forward otherwise.                                       *)
(***************************************************************************)
C3_DirectionHysteresis ==
  (last.op = "Update" /\ last.dir # "none") =>
     /\ ( (last.deltaT > sm._movingTimeThresholdMs
            /\ Magnitude(last.deltaD) > sm._movingDistanceDetectionThresholdMm)
          => last.dir = (IF last.deltaD > 0 THEN "Backward" ELSE "Forward") )
     /\ ( ~(last.deltaT > sm._movingTimeThresholdMs
            /\ Magnitude(last.deltaD) > sm._movingDistanceDetectionThresholdMm)
          => last.dir = "Stopped" )
     /\ ( last.deltaT <= sm._movingTimeThresholdMs => last.dir = "Stopped" )

\* the time guard wins over a distance change above the threshold
C3_Witness ==
  /\ last.op = "Update" /\ last.dir = "Stopped"
  /\ last.deltaT = sm._movingTimeThresholdMs
  /\ Magnitude(last.deltaD) > sm._movingDistanceDetectionThresholdMm

\* the call on the light that the tier table asks for at distance d
TierCall(d) ==
  IF TierLights(d) = {} THEN "SetAllLightsOff"
  ELSE CHOOSE l \in TierLights(d) : TRUE

\* the time from the motion timer to the last read of the clock
SinceTimerReset == ToUint32(clockMs - sm._previousTime)

(***************************************************************************)
(* C4: with near < far < maxCutoff, every Update that starts in            *)
(* SubjectApproaching or SubjectRetreating first commands the light by its *)
(* sample d: all off for d > maxCutoff, green for far < d <= maxCutoff,    *)
(* yellow for near < d <= far, red for d <= near; when the Update returns  *)
(* without a hold timeout exactly that tier is lit.  With near = 100,      *)
(* far = 300, maxCutoff = 2000 the command for d = 50 is red.              *)
(***************************************************************************)
C4_TierByDistance ==
  /\ (last.op = "Update" /\ last.from \in Moving /\ last.dir # "none"
        /\ ThresholdsInOrder) =>
       /\ Len(last.cmds) >= 1
       /\ last.cmds[1] = TierCall(last.distance)
       /\ (last.outcome = "returned" /\ Len(last.cmds) = 1
             => Lit = TierLights(last.distance))
  /\ TierCommand(50, 2000, 300, 100) = "RedLight"

C4_Witness ==
  /\ UpdateReturned /\ last.from = "SubjectApproaching" /\ ThresholdsInOrder
  /\ last.distance = sm._nearThresholdMm /\ Lit = {"RedLight"}

(***************************************************************************)
(* C5: after every Update that returns with a sample greater than          *)
(* maxDistanceThresholdMm (a reading beyond the cutoff or the timeout      *)
(* marker), in whatever state it started, all three lights are off.  With  *)
(* maxCutoff = 2000 the command for 2500 mm is all lights off.             *)
(***************************************************************************)
C5_BeyondCutoffAllOff ==
  /\ (UpdateReturned /\ last.distance > sm._maxDistanceThresholdMm)
       => AllLightsOff
  /\ TierCommand(2500, 2000, 300, 100) = "SetAllLightsOff"

C5_Witness ==
  /\ UpdateReturned /\ last.from \in Moving /\ tl._initDone
  /\ last.result = "RESULT_OK" /\ last.distance > sm._maxDistanceThresholdMm
  /\ last.cmds = <<"SetAllLightsOff">> /\ AllLightsOff /\ sm._state \in Moving

(***************************************************************************)
(* C6: an Update that starts in SubjectApproaching or SubjectRetreating,   *)
(* finds the direction Stopped and returns: if the time since the motion   *)
(* timer was reset exceeds holdingTimeThresholdMs it ends by turning all   *)
(* lights off and the next state is Idle; otherwise the state and the      *)
(* motion timer are as before.                                             *)
(***************************************************************************)
C6_StationaryHold ==
  [][(last'.op = "Update" /\ last'.outcome = "returned"
        /\ sm._state \in Moving /\ last'.dir = "Stopped") =>
       IF ToUint32(clockMs' - sm._previousTime) > sm._holdingTimeThresholdMs
         THEN /\ sm'._state = "Idle"
              /\ last'.cmds[Len(last'.cmds)] = "SetAllLightsOff"
              /\ AllLightsOff'
         ELSE /\ sm'._state = sm._state
              /\ sm'._previousTime = sm._previousTime]_vars

C6_Witness ==
  /\ UpdateReturned /\ last.from = "SubjectRetreating" /\ last.dir = "Stopped"
  /\ last.deltaT > sm._holdingTimeThresholdMs
  /\ last.cmds = <<"GreenLight", "SetAllLightsOff">>
  /\ sm._state = "Idle" /\ AllLightsOff

(***************************************************************************)
(* C7: an Update that returns with the sample its predecessor left in      *)
(* _previousDistance (two equal readings, or two timeouts) has deltaD = 0  *)
(* and the direction Stopped whatever deltaT is; it does not move the      *)
(* machine into SubjectApproaching or SubjectRetreating, and the lights    *)
(* after it are the tier of that sample when the machine stays in a        *)
(* moving state and all off otherwise: nothing is lit on account of a      *)
(* direction.                                                              *)
(***************************************************************************)
C7_EqualSamplesStationary ==
  [][(last'.op = "Update" /\ last'.outcome = "returned"
        /\ sm'._previousDistance = sm._previousDistance) =>
       /\ last'.deltaD = 0
       /\ last'.dir = "Stopped"
       /\ ~(sm'._state \in Moving /\ sm'._state # sm._state)
       /\ (ThresholdsInOrder =>
             Lit' = IF sm'._state \in Moving
                      THEN TierLights(sm._previousDistance) ELSE {})]_vars

C7_Witness ==
  /\ UpdateReturned /\ last.from = "SubjectApproaching"
  /\ last.deltaD = 0 /\ last.deltaT > sm._movingTimeThresholdMs
  /\ last.dir = "Stopped" /\ sm._state = "SubjectApproaching"
  /\ Lit = {"YellowLight"}

(***************************************************************************)
(* C8: an Update that starts in Idle and returns: with the direction       *)
(* Stopped the state stays Idle and the light was told all off; with       *)
(* Forward the next state is SubjectApproaching, with Backward it is       *)
(* SubjectRetreating, and in both the motion timer is the time of this     *)
(* Update (the clock has been read once more since, at most a tick later). *)
(***************************************************************************)
C8_IdleOutcomes ==
  (UpdateReturned /\ last.from = "Idle") =>
     /\ (last.dir = "Stopped" =>
           /\ sm._state = "Idle"
           /\ last.cmds = <<"SetAllLightsOff">>
           /\ AllLightsOff)
     /\ (last.dir = "Forward" => sm._state = "SubjectApproaching")
     /\ (last.dir = "Backward" => sm._state = "SubjectRetreating")
     /\ (last.dir # "Stopped" => SinceTimerReset <= 1)

C8_Witness ==
  /\ UpdateReturned /\ last.from = "Idle" /\ last.dir = "Forward"
  /\ sm._state = "SubjectApproaching" /\ SinceTimerReset <= 1

(***************************************************************************)
(* C9: an Update that starts in SubjectApproaching or SubjectRetreating    *)
(* with a direction other than Stopped and returns: the next state is      *)
(* SubjectApproaching for Forward and SubjectRetreating for Backward       *)
(* (never Idle or Error), the motion timer is the time of this Update and  *)
(* the tier of the sample is lit.                                          *)
(***************************************************************************)
C9_MovingOutcomes ==
  (UpdateReturned /\ last.from \in Moving /\ last.dir # "Stopped") =>
     /\ sm._state = (IF last.dir = "Forward" THEN "SubjectApproaching"
                     ELSE "SubjectRetreating")
     /\ SinceTimerReset <= 1
     /\ last.cmds = <<TierCall(last.distance)>>
     /\ (ThresholdsInOrder => Lit = TierLights(last.distance))

C9_Witness ==
  /\ UpdateReturned /\ last.from = "SubjectRetreating" /\ last.dir = "Forward"
  /\ last.deltaT > 1
  /\ sm._state = "SubjectApproaching" /\ Lit = {"RedLight"}

(***************************************************************************)
(* C10: at the end of every Update that moves the machine into             *)
(* SubjectApproaching or SubjectRetreating, from Idle or from the other    *)
(* moving state, the tier of that Update's sample is lit.                  *)
(***************************************************************************)
C10_TierLitOnEntry ==
  (UpdateReturned /\ sm._state \in Moving /\ last.from # sm._state
     /\ ThresholdsInOrder)
    => Lit = TierLights(last.distance)

\* the states of normal operation
Operating == {"Idle", "SubjectApproaching", "SubjectRetreating"}

C12_SensorResultEscalation ==
  [][/\ (last'.op = "Update" /\ last'.result = "RESULT_DEV_ERR") =>
          /\ last'.outcome = "reset"
          /\ last'.dir = "none" /\ last'.cmds = <<>>
          /\ sm' = StateMachine_Constructed
          /\ tl' = MockTrafficLight_Constructed
          /\ clockMs' = 0 /\ pc' = "running"
     /\ (last'.op = "Update"
           /\ last'.result \in SensorResult
                \ {"RESULT_OK", "RESULT_TIMEOUT", "RESULT_DEV_ERR"}) =>
          /\ last'.outcome = "aborted" /\ pc' = "aborted"
          /\ last'.dir = "none" /\ last'.cmds = <<>>
          /\ sm' = sm /\ tl' = tl]_vars

C12_Witness ==
  /\ last.op = "Update" /\ last.result = "RESULT_NOT_READY"
  /\ last.outcome = "aborted" /\ pc = "aborted"
  /\ sm._state = "SubjectRetreating" /\ Lit = {"GreenLight"}

(***************************************************************************)
(* C13: StateMachine::Init accepts no configuration whose thresholds       *)
(* violate near < far < maxCutoff: an initialised machine, and so every    *)
(* Update that runs, has its thresholds in order.                          *)
(***************************************************************************)
C13_UnorderedThresholdsRejected ==
  sm._initDone => ThresholdsInOrder

(***************************************************************************)
(* C14: in every Update that computes it, deltaD is positive exactly when  *)
(* the sample is greater than the retained previous sample and negative    *)
(* exactly when it is smaller, the marker UINT32_MAX counting as a sample  *)
(* on either side.                                                         *)
(***************************************************************************)
C14_DeltaDSignFollowsChange ==
  [][(last'.op = "Update" /\ last'.dir # "none") =>
       /\ (last'.deltaD > 0) = (sm'._previousDistance > sm._previousDistance)
       /\ (last'.deltaD < 0) = (sm'._previousDistance < sm._previousDistance)
    ]_vars

(***************************************************************************)
(* C15: in every Update where exactly one of the sample and the retained   *)
(* previous sample is the marker UINT32_MAX and the other is a reading of  *)
(* the sensor, with a distance threshold not above the sensor's range, the *)
(* magnitude of deltaD exceeds movingDistanceDetectionThresholdMm, and the *)
(* direction is not Stopped when deltaT exceeds movingTimeThresholdMs.     *)
(***************************************************************************)
C15_NoTargetTransitionIsLarge ==
  [][(/\ last'.op = "Update" /\ last'.dir # "none"
      /\ sm._movingDistanceDetectionThresholdMm <= MaxSampleMm
      /\ \/ /\ sm._previousDistance = UINT32_MAX
            /\ sm'._previousDistance \in Samples
         \/ /\ sm._previousDistance \in Samples
            /\ sm'._previousDistance = UINT32_MAX) =>
       /\ Magnitude(last'.deltaD) > sm._movingDistanceDetectionThresholdMm
       /\ (last'.deltaT > sm._movingTimeThresholdMs
             => last'.dir # "Stopped")]_vars

(***************************************************************************)
(* C16: every Update that returns has called the sensor's MeasureDistance  *)
(* exactly once, as the first of its calls on the sensor and the light:    *)
(* the deltas and the transition use that sample, which is retained, and   *)
(* every command to the light comes after it (in Initializing the lights   *)
(* test follows the measurement).                                          *)
(***************************************************************************)
C16_OneSampleFirst ==
  UpdateReturned =>
    /\ Len(last.calls) >= 1
    /\ last.calls[1] = "MeasureDistance"
    /\ \A i \in 2..Len(last.calls) : last.calls[i] # "MeasureDistance"
    /\ SubSeq(last.calls, 2, Len(last.calls)) = last.cmds
    /\ last.result \in {"RESULT_OK", "RESULT_TIMEOUT"}
    /\ sm._previousDistance = last.distance
    /\ (last.from = "Initializing" =>
          last.calls = <<"MeasureDistance", "PerformLightsTest">>)

C16_Witness ==
  /\ UpdateReturned /\ last.from = "Initializing"
  /\ last.result = "RESULT_TIMEOUT"
  /\ last.calls = <<"MeasureDistance", "PerformLightsTest">>
  /\ sm._state = "Idle"

(***************************************************************************)
(* C17: a MeasureDistance on a driver that is not configured (never        *)
(* initialised, after an Init that failed, after Deinit) returns           *)
(* RESULT_NOT_READY, writes nothing on the trigger pin, does not read the  *)
(* echo pin and leaves the driver and the pins as they were.               *)
(***************************************************************************)
C17_NotReadyBeforeInit ==
  [][(dlast'.op = "MeasureDistance" /\ ~ds._initDone) =>
       /\ dlast'.result = "RESULT_NOT_READY"
       /\ dlast'.outcome = "returned"
       /\ dlast'.writes = <<>>
       /\ dlast'.polls = 0
       /\ ds' = ds /\ hw' = hw]_vars

C17_Witness ==
  /\ dlast.op = "MeasureDistance" /\ dlast.result = "RESULT_NOT_READY"
  /\ ~ds._initDone /\ ds._triggerPin # NOT_A_PIN

(***************************************************************************)
(* C18: DistanceSensor::Init returns RESULT_BUSY exactly when the driver   *)
(* is configured, and then leaves the driver (flag, pin assignments) and   *)
(* the pins as they were for every argument.  The driver is configured     *)
(* from an Init that returned RESULT_OK until the next Deinit, and on a    *)
(* driver that is not configured an Init with a name returns RESULT_OK.    *)
(***************************************************************************)
C18_BusyWhenConfigured ==
  [][/\ dlast'.op = "Init" =>
          /\ (dlast'.result = "RESULT_BUSY") = ds._initDone
          /\ (ds._initDone => ds' = ds /\ hw' = hw)
          /\ (~ds._initDone /\ dlast'.named => dlast'.result = "RESULT_OK")
          /\ ds'._initDone = (ds._initDone \/ dlast'.result = "RESULT_OK")
     /\ dlast'.op = "Deinit" => ~ds'._initDone
     /\ dlast'.op = "MeasureDistance" => ds'._initDone = ds._initDone]_vars

C18_Witness ==
  /\ dlast.op = "Init" /\ dlast.result = "RESULT_BUSY" /\ dlast.named
  /\ ds._initDone /\ ds._triggerPin = 1 /\ ds._echoPin = 2
  /\ hw.mode[1] = "OUTPUT"

(***************************************************************************)
(* C19: DistanceSensor::Init on a driver that is not configured, called    *)
(* without a name, returns RESULT_BAD_PARAM and changes neither the driver *)
(* (it stays unconfigured with the pin assignments it had) nor the mode of *)
(* any pin; a MeasureDistance that follows returns RESULT_NOT_READY.       *)
(***************************************************************************)
C19_BadParamLeavesUnconfigured ==
  [][/\ (dlast'.op = "Init" /\ ~ds._initDone /\ ~dlast'.named) =>
          /\ dlast'.result = "RESULT_BAD_PARAM"
          /\ ds' = ds /\ ~ds'._initDone
          /\ hw' = hw
     /\ (dlast.op = "Init" /\ dlast.result = "RESULT_BAD_PARAM"
           /\ dlast'.op = "MeasureDistance") =>
          dlast'.result = "RESULT_NOT_READY"]_vars

C19_Witness ==
  /\ dlast.op = "Init" /\ dlast.result = "RESULT_BAD_PARAM"
  /\ ~ds._initDone /\ ds._triggerPin = 2 /\ ds._echoPin = 1

(***************************************************************************)
(* C20: DistanceSensor::Deinit returns in every state; after it the driver *)
(* is not configured and its trigger and echo pins are inputs, and a       *)
(* Deinit that follows a Deinit changes neither the driver nor the pins.   *)
(***************************************************************************)
C20_DeinitIdempotent ==
  [][dlast'.op = "Deinit" =>
       /\ dlast'.outcome = "returned"
       /\ ~ds'._initDone
       /\ hw'.mode[ds'._triggerPin] = "INPUT"
       /\ hw'.mode[ds'._echoPin] = "INPUT"
       /\ (dlast.op = "Deinit" => ds' = ds /\ hw' = hw)]_vars

C20_Witness ==
  /\ dlast.op = "Deinit" /\ ~dlast.wasInit /\ ~ds._initDone
  /\ ds._triggerPin = 1 /\ ds._echoPin = 2
  /\ hw.mode[1] = "INPUT" /\ hw.mode[2] = "INPUT"

\* the time budget for one edge of the echo pulse
maxWaitUs == Distance2Time(AmbientTemperature, ds._maxDistanceMm)

\* the last operation was a MeasureDistance on a configured driver
Measured == dlast.op = "MeasureDistance" /\ dlast.wasInit

\* the echo of the last measurement, as the driver sees the pin t
\* microseconds after the polling started
EchoActiveAt(t) ==
  dlast.echo.riseAt <= t /\ t < dlast.echo.riseAt + dlast.echo.width

\* the deadline startTime + maxWaitUs does not pass the end of the clock

(***************************************************************************)
(* C21: a MeasureDistance on a configured driver during which the echo pin *)
(* is not active at any time up to maxWaitUs after the polling started     *)
(* returns RESULT_TIMEOUT.                                                 *)
(***************************************************************************)
C21_NoEchoTimesOut ==
  (Measured /\ \A t \in 0..maxWaitUs : ~EchoActiveAt(t)) =>
     /\ dlast.outcome = "returned"
     /\ dlast.result = "RESULT_TIMEOUT"

(***************************************************************************)
(* C22: a MeasureDistance on a configured driver whose echo pin becomes    *)
(* active within maxWaitUs and is still active maxWaitUs (and one turn of  *)
(* the polling loop) after that returns RESULT_TIMEOUT and reports no      *)
(* distance: the distance is the 0 it was set to before the polling.       *)
(***************************************************************************)
C22_EndlessEchoTimesOut ==
  (/\ Measured
   /\ dlast.echo.riseAt <= maxWaitUs
   /\ \A t \in dlast.echo.riseAt..(dlast.echo.riseAt + dlast.step + maxWaitUs) :
        EchoActiveAt(t)) =>
     /\ dlast.outcome = "returned"
     /\ dlast.result = "RESULT_TIMEOUT"
     /\ dlast.distance = 0

(***************************************************************************)
(* C23: every MeasureDistance on a configured driver returns, and the time *)
(* it has spent polling is at most maxWaitUs for each of the two edges it  *)
(* waits for, plus the turn of the loop in which each deadline passes:     *)
(* with no echo at all at most one budget, and at most two with any echo.  *)
(***************************************************************************)
C23_WaitAtMostTwoBudgets ==
  Measured =>
    /\ dlast.outcome = "returned"
    /\ dlast.waitedUs <= 2 * (maxWaitUs + dlast.step)
    /\ (dlast.echo.width = 0 => dlast.waitedUs <= maxWaitUs + dlast.step)

(***************************************************************************)
(* C24: every MeasureDistance on a configured driver writes the trigger    *)
(* pin three times: inactive, held a fifth of the minimum pulse duration,  *)
(* active, held the minimum pulse duration, and inactive again, held a     *)
(* fifth of it: one active pulse.  The polling of the echo pin starts when *)
(* these three delays have passed, and the trigger pin is left at its      *)
(* inactive level, which is LOW for an active-high trigger and HIGH for an *)
(* active-low one.                                                         *)
(***************************************************************************)
TriggerPinLevel(active) ==
  IF (ds._triggerPolarity = "ActiveHigh") = active THEN "HIGH" ELSE "LOW"

C24_TriggerSequence ==
  Measured =>
    /\ Len(dlast.writes) = 3
    /\ [i \in 1..3 |-> dlast.writes[i].active] = <<FALSE, TRUE, FALSE>>
    /\ \A i \in 1..3 :
         dlast.writes[i].level = TriggerPinLevel(dlast.writes[i].active)
    /\ [i \in 1..3 |-> dlast.writes[i].heldUs]
         = << ds._minTriggerPulseDurationUs \div 5,
              ds._minTriggerPulseDurationUs,
              ds._minTriggerPulseDurationUs \div 5 >>
    /\ dlast.startUs
         = ToUint32(dlast.calledUs + ds._minTriggerPulseDurationUs
                      + 2 * (ds._minTriggerPulseDurationUs \div 5))
    /\ hw.level[ds._triggerPin] = TriggerPinLevel(FALSE)

C24_Witness ==
  /\ Measured
  /\ ds._triggerPolarity = "ActiveLow"
  /\ dlast.result = "RESULT_OK"
  /\ dlast.polls > 0
  /\ hw.level[ds._triggerPin] = "HIGH"

(***************************************************************************)
(* C25: a MeasureDistance on a configured driver whose echo pin becomes    *)
(* active before maxWaitUs has passed and stays active for W microseconds, *)
(* 0 < W < maxWaitUs, returns RESULT_OK with the distance                  *)
(* W / 1,000,000 x (speedOfSound(T) / 2) x 1000, truncated, where          *)
(* speedOfSound(T) = 331.4 + 0.6 x (T / 10) and T is the ambient           *)
(* temperature of the measurement.                                         *)
(***************************************************************************)
timeToDistance(T, W) == (W * (3314 * 10 + 6 * T)) \div (2 * 100 * 1000)

C25_DistanceOfPulseWidth ==
  (/\ Measured
   /\ dlast.echo.riseAt < maxWaitUs
   /\ 0 < dlast.echo.width
   /\ dlast.echo.width < maxWaitUs) =>
     /\ dlast.outcome = "returned"
     /\ dlast.result = "RESULT_OK"
     /\ dlast.distance = timeToDistance(AmbientTemperature, dlast.echo.width)

(***************************************************************************)
(* C26: for every ambient temperature T and pulse width W, the time        *)
(* Distance2Time(T, Time2Distance(T, W)) is not longer than W, and is      *)
(* shorter than W by at most the time Distance2Time gives for one          *)
(* millimetre plus one microsecond.                                        *)
(***************************************************************************)
C26_RoundTrip ==
  conv.op = "Distance2Time" =>
    /\ conv.backUs <= conv.timeUs
    /\ conv.timeUs - conv.backUs
         <= Distance2Time(conv.ambientTemperature, 1) + 1

C26_Witness ==
  /\ conv.op = "Distance2Time"
  /\ conv.distanceMm > 0
  /\ conv.backUs < conv.timeUs
  /\ conv.timeUs - conv.backUs
       = Distance2Time(conv.ambientTemperature, 1) + 1

(***************************************************************************)
(* Vocabulary of the traffic lights' properties.                           *)
(***************************************************************************)
\* the lights of the traffic light of a kind that are on
LightsLit(kind) ==
  IF kind = "Mock" THEN MockLit(tl) ELSE DiscreteLEDLit(led, hw)

LightInitialised(kind) ==
  IF kind = "Mock" THEN tl._initDone ELSE led._initDone

\* the last step was the call op on a traffic light
LightCalled(op) == llast.op = op

(***************************************************************************)
(* C27: in every state of an initialised traffic light, MockTrafficLight   *)
(* or DiscreteLEDTrafficLight, at most one of the red, yellow and green    *)
(* lights is on, whatever calls were made on it; and when TurnOn(x) has    *)
(* returned RESULT_OK, light x is on and the other two are off.            *)
(***************************************************************************)
C27_OneLightAtATime ==
  /\ \A kind \in LightKinds :
       LightInitialised(kind) => Cardinality(LightsLit(kind)) <= 1
  /\ (LightCalled("TurnOn") /\ llast.result = "RESULT_OK") =>
       LightsLit(llast.kind) = {llast.whichLight}

(***************************************************************************)
(* C28: on an initialised traffic light, TurnOff(light) and                *)
(* SetState(light, Off) with light one of red, yellow and green return     *)
(* RESULT_OK and leave that light off; and a call on an initialised light  *)
(* returns RESULT_BAD_PARAM only when the selector or the state passed is  *)
(* not a value of its enumeration.                                         *)
(***************************************************************************)
C28_TurnOffSucceeds ==
  /\ (/\ LightCalled("TurnOff") \/ (LightCalled("SetState") /\ llast.state = "Off")
      /\ llast.wasInit
      /\ llast.whichLight \in LightSelector) =>
        /\ llast.result = "RESULT_OK"
        /\ llast.whichLight \notin LightsLit(llast.kind)
  /\ (llast.wasInit /\ llast.result = "RESULT_BAD_PARAM") =>
        \/ llast.whichLight \notin LightSelector
        \/ llast.state \notin LightState

(***************************************************************************)
(* C29: when Init of a traffic light has returned RESULT_OK, all three     *)
(* lights are off: the three states of a MockTrafficLight are Off, and the *)
(* three pins of a DiscreteLEDTrafficLight are outputs at the inactive     *)
(* level of the configured polarity, LOW for ActiveHigh and HIGH for       *)
(* ActiveLow.                                                              *)
(***************************************************************************)
C29_InitTurnsLightsOff ==
  (LightCalled("Init") /\ llast.result = "RESULT_OK") =>
     IF llast.kind = "Mock"
       THEN /\ tl._redLightState = "Off"
            /\ tl._yellowLightState = "Off"
            /\ tl._greenLightState = "Off"
       ELSE \A pin \in {led._redLightPin, led._yellowLightPin,
                        led._greenLightPin} :
              /\ hw.mode[pin] = "OUTPUT"
              /\ hw.level[pin] = IF led._pinsPolarity = "ActiveHigh"
                                   THEN "LOW" ELSE "HIGH"

(***************************************************************************)
(* C30: PerformLightsTest on an initialised traffic light turns on the red *)
(* light alone, then the yellow light alone, then the green light alone,   *)
(* then turns all the lights off, and returns RESULT_OK; on a traffic      *)
(* light that is not initialised it returns RESULT_NOT_READY and changes   *)
(* no light.                                                               *)
(***************************************************************************)
C30_LightsTestSequence ==
  LightCalled("PerformLightsTest") =>
    IF llast.wasInit
      THEN /\ llast.result = "RESULT_OK"
           /\ llast.steps = << {"RedLight"}, {"YellowLight"}, {"GreenLight"},
                               {} >>
           /\ LightsLit(llast.kind) = {}
      ELSE /\ llast.result = "RESULT_NOT_READY"
           /\ ~llast.changed
           /\ llast.steps = <<>>

C30_Witness ==
  /\ LightCalled("PerformLightsTest")
  /\ llast.kind = "DiscreteLED"
  /\ llast.wasInit
  /\ led._pinsPolarity = "ActiveLow"
  /\ llast.result = "RESULT_OK"
  /\ Len(llast.steps) = 4

(***************************************************************************)
(* C31: whenever an Update has returned and the current state is Idle,     *)
(* whether Idle was entered from Initializing, entered from a moving state *)
(* after the hold time, or kept, the red, yellow and green lights are all  *)
(* off.                                                                    *)
(***************************************************************************)
C31_IdleLightsOff ==
  (UpdateReturned /\ sm._state = "Idle") => AllLightsOff

C31_Witness ==
  /\ UpdateReturned
  /\ sm._state = "Idle"
  /\ last.from \in Moving
  /\ last.cmds[1] \in LightSelector
  /\ AllLightsOff

(***************************************************************************)
(* Vocabulary: the step is an Update that returns, and the time between    *)
(* the clock reading of the Update before it and its own.                  *)
(***************************************************************************)
UpdateStep == last'.op = "Update" /\ last'.outcome = "returned"

AfterUpdate == last.op = "Update" /\ last.outcome = "returned"

UpdatePeriod == ToUint32(last'.time - last.time)

(***************************************************************************)
(* C32 as stated: an Update that starts in Idle sets the motion timer to   *)
(* the time it read, whatever the direction; its deltaT is the time since  *)
(* the Update before it (to the millisecond in which it is computed); and  *)
(* when that Update was made no more than movingTimeThresholdMs before, it *)
(* leaves the state Idle, for every sample.                                *)
(***************************************************************************)
C32_IdleKeptWhenPolledFast ==
  [][ (UpdateStep /\ last'.from = "Idle") =>
        /\ sm'._previousTime = last'.time
        /\ AfterUpdate =>
             /\ ToUint32(last'.deltaT - UpdatePeriod) \in 0..1
             /\ UpdatePeriod <= sm._movingTimeThresholdMs
                  => sm'._state = "Idle" ]_vars

(***************************************************************************)
(* C32 as the code has it: an Update that starts in Idle sets the motion   *)
(* timer to the time it read, whatever the direction; when the Update      *)
(* before it started in Idle or in Initializing, its deltaT is the time    *)
(* from the clock reading of that Update to its own second reading of the  *)
(* clock; and when its deltaT is not greater than movingTimeThresholdMs it *)
(* leaves the state Idle, for every sample.                                *)
(***************************************************************************)
C32_IdleResetsTimer ==
  [][ (UpdateStep /\ last'.from = "Idle") =>
        /\ sm'._previousTime = last'.time
        /\ (AfterUpdate /\ last.from \in {"Idle", "Initializing"}) =>
             ToUint32(last'.deltaT - UpdatePeriod) \in 0..1
        /\ last'.deltaT <= sm._movingTimeThresholdMs
             => sm'._state = "Idle" ]_vars

C32_Witness ==
  /\ UpdateReturned
  /\ last.from = "Idle"
  /\ sm._state = "Idle"
  /\ sm._previousTime = last.time
  /\ last.deltaT <= sm._movingTimeThresholdMs
  /\ Magnitude(last.deltaD) > sm._movingDistanceDetectionThresholdMm

(***************************************************************************)
(* C33: after every Update that returns, whatever the state and the        *)
(* direction, _previousDistance is the sample of that Update (UINT32_MAX   *)
(* after a timeout); and an Update whose sample differs from the sample of *)
(* the Update before it by no more than                                    *)
(* movingDistanceDetectionThresholdMm finds the direction Stopped, so that *)
(* a distance that changes by small steps is never seen to move.           *)
(***************************************************************************)
C33_DeltaAgainstLastSample ==
  [][ UpdateStep =>
        /\ sm'._previousDistance = last'.distance
        /\ (/\ AfterUpdate
            /\ Magnitude(last'.distance - last.distance)
                 <= sm._movingDistanceDetectionThresholdMm) =>
             last'.dir = "Stopped" ]_vars

C33_Witness ==
  /\ UpdateReturned
  /\ last.from \in Moving
  /\ last.deltaT > sm._movingTimeThresholdMs
  /\ Magnitude(last.deltaD) = sm._movingDistanceDetectionThresholdMm
  /\ last.dir = "Stopped"
  /\ sm._previousDistance = last.distance

(***************************************************************************)
(* C34: once StateMachine::Init has run, the current state is one of       *)
(* Initializing, Idle, SubjectApproaching, SubjectRetreating and Error,    *)
(* never Invalid.  Initializing is the state Init leaves, is left by the   *)
(* first Update that returns and is not entered again; Error is entered    *)
(* only from Initializing; SubjectApproaching and SubjectRetreating are    *)
(* entered only from Idle or from each other; Idle is entered only from    *)
(* Initializing or from SubjectApproaching or SubjectRetreating.           *)
(***************************************************************************)
C34_StateStructure ==
  [][ sm'._initDone =>
        /\ sm'._state \in State \ {"Invalid"}
        /\ ~sm._initDone => sm'._state = "Initializing"
        /\ (UpdateStep /\ sm._state = "Initializing")
              => sm'._state # "Initializing"
        /\ (sm._initDone /\ sm'._state # sm._state) =>
             /\ sm'._state # "Initializing"
             /\ sm'._state = "Error" => sm._state = "Initializing"
             /\ sm'._state \in Moving => sm._state \in Moving \cup {"Idle"}
             /\ sm'._state = "Idle"
                  => sm._state \in Moving \cup {"Initializing"} ]_vars

C34_Witness ==
  /\ UpdateReturned
  /\ sm._initDone
  /\ last.from = "SubjectRetreating"
  /\ sm._state = "SubjectApproaching"
  /\ sm._previousState = "SubjectRetreating"

(***************************************************************************)
(* C35: when the light is not deinitialised after the first Update, no     *)
(* Update fails the assertion result == RESULT_OK of SetTrafficLights: an  *)
(* Update that starts in SubjectApproaching or SubjectRetreating with a    *)
(* sample or a timeout from the sensor is not aborted, and the light is    *)
(* initialised in every state after Initializing.                          *)
(***************************************************************************)
C35_TierAssertionHolds ==
  /\ ~(/\ last.op = "Update"
       /\ last.outcome = "aborted"
       /\ last.from \in Moving
       /\ last.result \in {"RESULT_OK", "RESULT_TIMEOUT"})
  /\ sm._state \in Moving \cup {"Idle"} => IsInitialized(tl)

C35_Witness ==
  /\ UpdateReturned
  /\ last.from \in Moving
  /\ last.cmds = <<"SetAllLightsOff", "SetAllLightsOff">>
  /\ sm._state = "Idle"

(***************************************************************************)
(* C36: the deadlines of ReadDistance hold at every value of the           *)
(* microsecond clock, also when startTime + maxWaitUs passes the clock's   *)
(* wrap: every MeasureDistance on a configured driver samples the echo pin *)
(* at least once, and for an echo pulse that starts before maxWaitUs has   *)
(* passed, is shorter than maxWaitUs and not shorter than a turn of the    *)
(* polling loop, it returns RESULT_OK with the distance of the pulse       *)
(* width.                                                                  *)
(***************************************************************************)
C36_DeadlinesSurviveWrap ==
  Measured =>
    /\ dlast.polls > 0
    /\ (/\ dlast.echo.riseAt < maxWaitUs
        /\ dlast.step <= dlast.echo.width
        /\ dlast.echo.width < maxWaitUs) =>
          /\ dlast.outcome = "returned"
          /\ dlast.result = "RESULT_OK"
          /\ dlast.distance
               = Time2Distance(AmbientTemperature, dlast.echo.width)

(***************************************************************************)
(* C37: whenever MeasureDistance on a configured driver returns RESULT_OK, *)
(* the distance it reports lies between the minDistanceMm and the          *)
(* maxDistanceMm the driver was constructed with.                          *)
(***************************************************************************)
C37_DistanceInRange ==
  (Measured /\ dlast.outcome = "returned" /\ dlast.result = "RESULT_OK") =>
     /\ ds._minDistanceMm <= dlast.distance
     /\ dlast.distance <= ds._maxDistanceMm

(***************************************************************************)
(* C38: every MeasureDistance on a configured driver comes to an end,      *)
(* whatever the echo pin does (never active, active without end, or a      *)
(* pulse of any width at any time) while the clock advances with every     *)
(* turn of the polling loops, and its result is RESULT_OK or               *)
(* RESULT_TIMEOUT.                                                         *)
(***************************************************************************)
C38_MeasureTerminates ==
  Measured =>
    /\ dlast.outcome = "returned"
    /\ dlast.result \in {"RESULT_OK", "RESULT_TIMEOUT"}

====
